---------------------------- MODULE Spec2Model ----------------------------
(***************************************************************************)
(* Model of logic/pulsed/pulse_objects.py: the PulseBlock,                 *)
(* PulseBlockEnsemble and PulseSequence containers and their               *)
(* position-addressed mutators.                                            *)
(*                                                                         *)
(* A method call is modelled by an operator that takes the object before   *)
(* the call and yields [self |-> the object after the call, ret |-> the    *)
(* outcome].  The outcome is the returned value ("0" or "-1") or the name  *)
(* of the exception that left the method ("ValueError", "IndexError",      *)
(* "TypeError", "KeyError").  Python's list semantics (negative indices    *)
(* count from the end, list.insert clamps its index, tuples reject item    *)
(* assignment) are modelled as Python defines them.                        *)
(***************************************************************************)
EXTENDS Integers, Sequences, FiniteSets, TLC

\* block, ensemble, sequence: the objects; x_call: the last call made on x, with
\* its arguments and its outcome; x_before: x as it was when that call was made
VARIABLES block, block_before, block_call,
          ensemble, ensemble_before, ensemble_call,
          sequence, sequence_before, sequence_call

\* caller_element: the element object e that the caller passed to the last
\* insert_element / append_element / replace_element call and still holds;
\* element_shared: the 1-based indices of block.element_list whose entry is that
\* very object (and not a copy of it)
VARIABLES caller_element, element_shared

\* generator: an instance of PredefinedGeneratorBase, given by what its
\* properties read from the SequenceGeneratorLogic it refers to;
\* helper_call: the last call of one of its helper methods, with its outcome
VARIABLES generator, helper_call

\* plugin_dirs: the paths that PulseObjectGenerator scans, with their files;
\* registry: the PulseObjectGenerator; registry_before, registry_call: its
\* history; caller_params: the mapping that the last read of
\* predefined_method_parameters has returned to the caller
VARIABLES plugin_dirs, registry, registry_before, registry_call, caller_params

\* caller_seq_param: the step parameter dict that the caller passed to the last
\* insert_ensemble / append_ensemble / replace_ensemble call and still holds;
\* step_shared: the 1-based indices of sequence.ensemble_list whose step holds
\* that very dict (and not a copy of it)
VARIABLES caller_seq_param, step_shared

\* sequence_copy: the PulseSequence that sequence_from_dict has built from
\* sequence.get_dict_representation() (None before that), holding SameObject
\* for every attribute in copy_shared; copy_shared: the attributes of
\* sequence_copy whose value is the very object that sequence holds
VARIABLES sequence_copy, copy_shared

\* caller_dict: the dictionary representation that the caller has taken from
\* an element or a block (kind), as get_dict_representation returned it
\* (taken) and as it is now (value); from_dict_results: the outcomes of the
\* element_from_dict / block_from_dict calls made with that dictionary so far
VARIABLES caller_dict, from_dict_results

block_vars == <<block, block_before, block_call>>

ensemble_vars == <<ensemble, ensemble_before, ensemble_call>>

sequence_vars == <<sequence, sequence_before, sequence_call>>

caller_vars == <<caller_element, element_shared>>

generator_vars == <<generator, helper_call>>

\* the variables outside the three containers
registry_vars ==
    <<plugin_dirs, registry, registry_before, registry_call, caller_params>>

\* the objects that a caller shares, or does not share, with a container
step_caller_vars == <<caller_seq_param, step_shared>>

copy_vars == <<sequence_copy, copy_shared>>

record_vars == <<caller_dict, from_dict_results>>

sharing_vars == <<step_caller_vars, copy_vars, record_vars>>

\* the variables outside the three containers
other_vars == <<caller_vars, generator_vars, registry_vars, sharing_vars>>

vars == <<block_vars, ensemble_vars, sequence_vars, other_vars>>

(***************************************************************************)
(* Bounds of the model.                                                    *)
(***************************************************************************)
\* longest element / block / ensemble list that is built
MaxLen == 2

\* largest repetition count passed to a mutator
MaxReps == 1

\* the largest repetition count of a step passed to _get_ensemble_count_length
MaxCountReps == 2

\* the largest number of blocks passed to _get_ensemble_count_length
MaxBlocks == 2

\* the largest number of files in a scanned directory
MaxFiles == 1

\* the largest length of the amps, freqs and phases lists
MaxTones == 4

\* positions passed to the mutators: valid ones, too large ones, and negative ones
Positions == (0 - MaxLen - 1) .. (MaxLen + 1)

AnalogChannels == {"a_ch1"}

DigitalChannels == {"d_ch1"}

\* the (init_length_s, increment_s) pairs of the elements passed to the mutators
Timings == {<<10, 0>>, <<5, 1>>}

BlockNames == {"B1", "B2"}

EnsembleNames == {"E1", "E2"}

(***************************************************************************)
(* Python values and list semantics.                                       *)
(***************************************************************************)
\* an optional argument: None is the empty set, a given value x is {x}
None == {}

Some(x) == {x}

TheValue(opt) == CHOOSE x \in opt : TRUE

\* a name argument that is not a str (fails isinstance(name, str))
NotAStr == "<not-a-str>"

IsStr(name) == name # NotAStr

\* the 1-based index that the Python subscript lst[position] denotes,
\* or 0 when the subscript raises IndexError
PyIndex(lst, position) ==
    IF position >= 0
    THEN IF position < Len(lst) THEN position + 1 ELSE 0
    ELSE IF Len(lst) + position >= 0 THEN Len(lst) + position + 1 ELSE 0

\* lst after del lst[i] for the 1-based index i
ListDelete(lst, i) ==
    [k \in 1 .. (Len(lst) - 1) |-> IF k < i THEN lst[k] ELSE lst[k + 1]]

\* lst after lst.insert(position, x): a negative position counts from the end,
\* and the position is clamped to 0 .. len(lst)
ListInsert(lst, position, x) ==
    LET p0 == IF position < 0 THEN Len(lst) + position ELSE position
        p  == IF p0 < 0 THEN 0 ELSE IF p0 > Len(lst) THEN Len(lst) ELSE p0
    IN  [k \in 1 .. (Len(lst) + 1) |->
            IF k <= p THEN lst[k] ELSE IF k = p + 1 THEN x ELSE lst[k - 1]]

\* The result of an expression that yields an object built from obj: value is the
\* value of the result, aliased tells which of its parts are the very objects of
\* obj: "none" (an independent copy), "values" (a new container holding the same
\* value objects) or "all" (obj itself).
\* obj stored as it is, without a copy
deepcopy_same_object(obj) == [value |-> obj, aliased |-> "all"]

\* copy.deepcopy(obj)
deepcopy(obj) == [value |-> obj, aliased |-> "none"]

\* the dict d itself, without a copy
dict_copy_same_object(d) == [value |-> d, aliased |-> "all"]

\* dict.copy(): a new dict that holds the same value objects
dict_copy(d) == [value |-> d, aliased |-> "values"]

\* the 1-based index at which lst.insert(position, x) places x
InsertIndex(lst, position) ==
    LET p0 == IF position < 0 THEN Len(lst) + position ELSE position
    IN  (IF p0 < 0 THEN 0 ELSE IF p0 > Len(lst) THEN Len(lst) ELSE p0) + 1

\* chnl.startswith('a') / chnl.startswith('d') on the channel descriptors
\* chnl.startswith('a') and chnl.startswith('d') on the channel names that occur
IsAnalog(chnl) == chnl \in {"a_ch1", "a_ch2"}

IsDigital(chnl) == chnl \in {"d_ch1", "d_ch2"}

(***************************************************************************)
(* PulseBlockElement                                                       *)
(***************************************************************************)
PulseBlockElement(init_length_s, increment_s, pulse_function, digital_high) ==
    [type            |-> "PulseBlockElement",
     init_length_s   |-> init_length_s,
     increment_s     |-> increment_s,
     pulse_function  |-> pulse_function,
     digital_high    |-> digital_high,
     analog_channels |-> DOMAIN pulse_function,
     digital_channels |-> DOMAIN digital_high,
     channel_set     |-> (DOMAIN pulse_function) \cup (DOMAIN digital_high)]

\* an argument that is not a PulseBlockElement (fails the isinstance test)
NotAnElement ==
    [type            |-> "NoneType",
     init_length_s   |-> 0,
     increment_s     |-> 0,
     pulse_function  |-> <<>>,
     digital_high    |-> <<>>,
     analog_channels |-> {},
     digital_channels |-> {},
     channel_set     |-> {}]

IsElement(element) == element.type = "PulseBlockElement"

PulseFunctions == {[chnl \in S |-> "Idle"] : S \in SUBSET AnalogChannels}

DigitalHighs == {[chnl \in S |-> FALSE] : S \in SUBSET DigitalChannels}

Elements ==
    {PulseBlockElement(t[1], t[2], pf, dh) :
        t \in Timings, pf \in PulseFunctions, dh \in DigitalHighs}

ElementArgs == Elements \cup {NotAnElement}

(***************************************************************************)
(* PulseBlock                                                              *)
(***************************************************************************)
\* PulseBlock(name) with element_list=None, after refresh_parameters()
PulseBlock(name) ==
    [name             |-> name,
     element_list     |-> <<>>,
     init_length_s    |-> 0,
     increment_s      |-> 0,
     analog_channels  |-> {},
     digital_channels |-> {},
     channel_set      |-> {}]

replace_element(self, position, element) ==
    IF ~IsElement(element) \/ Len(self.element_list) <= position
    THEN [self |-> self, ret |-> "-1"]
    ELSE IF element.channel_set # self.channel_set
    THEN [self |-> self, ret |-> "ValueError"]
    ELSE LET i == PyIndex(self.element_list, position) IN
         IF i = 0
         THEN [self |-> self, ret |-> "IndexError"]
         ELSE [self |-> [self EXCEPT
                    !.init_length_s = (@ - self.element_list[i].init_length_s)
                                        + element.init_length_s,
                    !.increment_s = (@ - self.element_list[i].increment_s)
                                        + element.increment_s,
                    !.element_list = [@ EXCEPT ![i] = deepcopy(element).value]],
               ret |-> "0"]

\* delete_element without the line that subtracts the element's increment_s
delete_element_keeps_increment(self, position) ==
    IF Len(self.element_list) <= position
    THEN [self |-> self, ret |-> "-1"]
    ELSE LET i == PyIndex(self.element_list, position) IN
         IF i = 0
         THEN [self |-> self, ret |-> "IndexError"]
         ELSE LET rest == ListDelete(self.element_list, i) IN
              [self |-> [self EXCEPT
                    !.init_length_s = IF Len(rest) = 0 THEN 0
                                      ELSE @ - self.element_list[i].init_length_s,
                    !.increment_s = IF Len(rest) = 0 THEN 0 ELSE @,
                    !.element_list = rest],
               ret |-> "0"]

delete_element(self, position) ==
    IF Len(self.element_list) <= position
    THEN [self |-> self, ret |-> "-1"]
    ELSE LET i == PyIndex(self.element_list, position) IN
         IF i = 0
         THEN [self |-> self, ret |-> "IndexError"]
         ELSE LET rest == ListDelete(self.element_list, i) IN
              [self |-> [self EXCEPT
                    !.init_length_s = IF Len(rest) = 0 THEN 0
                                      ELSE @ - self.element_list[i].init_length_s,
                    !.increment_s = IF Len(rest) = 0 THEN 0
                                    ELSE @ - self.element_list[i].increment_s,
                    !.element_list = rest],
               ret |-> "0"]

\* insert_element adopting the element's channel set before it tests the position
insert_element_adopts_first(self, position, element) ==
    LET adopted ==
            IF self.channel_set = {} /\ IsElement(element)
            THEN [self EXCEPT
                    !.channel_set = element.channel_set,
                    !.analog_channels = {c \in element.channel_set : IsAnalog(c)},
                    !.digital_channels = {c \in element.channel_set : IsDigital(c)}]
            ELSE self
    IN  IF ~IsElement(element) \/ Len(self.element_list) < position
        THEN [self |-> adopted, ret |-> "-1"]
        ELSE IF element.channel_set # adopted.channel_set
        THEN [self |-> adopted, ret |-> "ValueError"]
        ELSE [self |-> [adopted EXCEPT
                    !.init_length_s = @ + element.init_length_s,
                    !.increment_s = @ + element.increment_s,
                    !.element_list = ListInsert(@, position, element)],
              ret |-> "0"]

\* insert_element adopting the element's channel set when the element list is
\* empty ("if not self.element_list") instead of when the channel set is empty
insert_element_tests_list(self, position, element) ==
    IF ~IsElement(element) \/ Len(self.element_list) < position
    THEN [self |-> self, ret |-> "-1"]
    ELSE IF self.element_list # <<>> /\ element.channel_set # self.channel_set
    THEN [self |-> self, ret |-> "ValueError"]
    ELSE LET adopted ==
                IF self.element_list = <<>>
                THEN [self EXCEPT
                        !.channel_set = element.channel_set,
                        !.analog_channels = {c \in element.channel_set : IsAnalog(c)},
                        !.digital_channels = {c \in element.channel_set : IsDigital(c)}]
                ELSE self
         IN  [self |-> [adopted EXCEPT
                    !.init_length_s = @ + element.init_length_s,
                    !.increment_s = @ + element.increment_s,
                    !.element_list = ListInsert(@, position, element)],
              ret |-> "0"]

insert_element(self, position, element) ==
    IF ~IsElement(element) \/ Len(self.element_list) < position
    THEN [self |-> self, ret |-> "-1"]
    ELSE IF self.channel_set # {} /\ element.channel_set # self.channel_set
    THEN [self |-> self, ret |-> "ValueError"]
    ELSE LET adopted ==
                IF self.channel_set = {}
                THEN [self EXCEPT
                        !.channel_set = element.channel_set,
                        !.analog_channels = {c \in element.channel_set : IsAnalog(c)},
                        !.digital_channels = {c \in element.channel_set : IsDigital(c)}]
                ELSE self
         IN  [self |-> [adopted EXCEPT
                    !.init_length_s = @ + element.init_length_s,
                    !.increment_s = @ + element.increment_s,
                    !.element_list = ListInsert(@, position, deepcopy(element).value)],
              ret |-> "0"]

append_element(self, element, at_beginning) ==
    insert_element(self, IF at_beginning THEN 0 ELSE Len(self.element_list), element)

(***************************************************************************)
(* The calls made on the PulseBlock                                        *)
(***************************************************************************)
BlockCall(op, position, element, ret) ==
    [op |-> op, position |-> position, element |-> element, ret |-> ret]

NoBlockCall == BlockCall("__init__", 0, NotAnElement, "0")

InsertElement ==
    \E position \in Positions, element \in ElementArgs :
        LET r == insert_element(block, position, element) IN
            /\ Len(r.self.element_list) <= MaxLen
            /\ block' = r.self
            /\ block_before' = block
            /\ block_call' = BlockCall("insert_element", position, element, r.ret)
            /\ UNCHANGED <<ensemble_vars, sequence_vars, other_vars>>

AppendElement ==
    \E at_beginning \in BOOLEAN, element \in ElementArgs :
        LET r == append_element(block, element, at_beginning) IN
            /\ Len(r.self.element_list) <= MaxLen
            /\ block' = r.self
            /\ block_before' = block
            /\ block_call' = BlockCall("append_element",
                                       IF at_beginning THEN 0 ELSE Len(block.element_list),
                                       element, r.ret)
            /\ UNCHANGED <<ensemble_vars, sequence_vars, other_vars>>

ReplaceElement ==
    \E position \in Positions, element \in ElementArgs :
        LET r == replace_element(block, position, element) IN
            /\ block' = r.self
            /\ block_before' = block
            /\ block_call' = BlockCall("replace_element", position, element, r.ret)
            /\ UNCHANGED <<ensemble_vars, sequence_vars, other_vars>>

DeleteElement ==
    \E position \in Positions :
        LET r == delete_element(block, position) IN
            /\ block' = r.self
            /\ block_before' = block
            /\ block_call' = BlockCall("delete_element", position, NotAnElement, r.ret)
            /\ UNCHANGED <<ensemble_vars, sequence_vars, other_vars>>

(***************************************************************************)
(* Dictionary representations of PulseBlockElement and PulseBlock          *)
(***************************************************************************)
\* func.get_dict_representation() of a sampling function: its class name and
\* its constructor parameters (the functions of this model have none)
SamplingFunctionDict(func) == [name |-> func, params |-> <<>>]

\* getattr(sf, sample_dict['name'])(**sample_dict['params'])
SamplingFunctionFromDict(sample_dict) == sample_dict.name

\* PulseBlockElement.get_dict_representation
element_get_dict_representation(self) ==
    [init_length_s |-> self.init_length_s,
     increment_s |-> self.increment_s,
     digital_high |-> self.digital_high,
     pulse_function |-> [chnl \in DOMAIN self.pulse_function |->
                            SamplingFunctionDict(self.pulse_function[chnl])]]

\* PulseBlockElement.element_from_dict
element_from_dict(element_dict) ==
    PulseBlockElement(element_dict.init_length_s,
                      element_dict.increment_s,
                      [chnl \in DOMAIN element_dict.pulse_function |->
                          SamplingFunctionFromDict(element_dict.pulse_function[chnl])],
                      element_dict.digital_high)

\* the loop of PulseBlock.refresh_parameters from element k of lst on
RECURSIVE BlockRefreshLoop(_, _, _)
BlockRefreshLoop(self, lst, k) ==
    IF k > Len(lst)
    THEN [self |-> self, ret |-> "None"]
    ELSE LET elem == lst[k]
             added == [self EXCEPT !.init_length_s = @ + elem.init_length_s,
                                   !.increment_s = @ + elem.increment_s]
         IN  IF added.channel_set = {}
             THEN BlockRefreshLoop([added EXCEPT !.channel_set = elem.channel_set],
                                   lst, k + 1)
             ELSE IF added.channel_set # elem.channel_set
             THEN [self |-> added, ret |-> "ValueError"]
             ELSE BlockRefreshLoop(added, lst, k + 1)

\* PulseBlock.refresh_parameters
block_refresh_parameters(self) ==
    LET r == BlockRefreshLoop([self EXCEPT !.init_length_s = 0,
                                           !.increment_s = 0,
                                           !.channel_set = {}],
                              self.element_list, 1)
    IN  IF r.ret = "ValueError"
        THEN r
        ELSE [self |-> [r.self EXCEPT
                    !.analog_channels = {c \in r.self.channel_set : IsAnalog(c)},
                    !.digital_channels = {c \in r.self.channel_set : IsDigital(c)}],
              ret |-> "None"]

\* PulseBlock(name, element_list): ret is "None" when the object is constructed
\* and "ValueError" when refresh_parameters raises
PulseBlock_init(name, element_list) ==
    block_refresh_parameters([PulseBlock(name) EXCEPT !.element_list = element_list])

\* PulseBlock.get_dict_representation
block_get_dict_representation(self) ==
    [name |-> self.name,
     element_list |-> [ii \in DOMAIN self.element_list |->
                          element_get_dict_representation(self.element_list[ii])]]

\* PulseBlock.block_from_dict
block_from_dict(block_dict) ==
    PulseBlock_init(block_dict.name,
                    [ii \in DOMAIN block_dict.element_list |->
                        element_from_dict(block_dict.element_list[ii])])

(***************************************************************************)
(* The caller that keeps the element it has passed to the PulseBlock       *)
(***************************************************************************)
\* a successful call has stored copied.value at the 1-based index: the stored
\* object is the caller's own object unless it is an independent copy
SharedAfterStore(ret, copied, index) ==
    IF ret = "0" /\ copied.aliased # "none" THEN {index} ELSE {}

InsertKeptElement ==
    \E position \in Positions, element \in Elements :
        LET r == insert_element(block, position, element) IN
            /\ Len(r.self.element_list) <= MaxLen
            /\ block' = r.self
            /\ block_before' = block
            /\ block_call' = BlockCall("insert_element", position, element, r.ret)
            /\ caller_element' = element
            /\ element_shared' =
                   SharedAfterStore(r.ret, deepcopy(element),
                                    InsertIndex(block.element_list, position))
            /\ UNCHANGED <<ensemble_vars, sequence_vars, generator_vars, registry_vars,
                           sharing_vars>>

AppendKeptElement ==
    \E at_beginning \in BOOLEAN, element \in Elements :
        LET position == IF at_beginning THEN 0 ELSE Len(block.element_list)
            r == append_element(block, element, at_beginning)
        IN  /\ Len(r.self.element_list) <= MaxLen
            /\ block' = r.self
            /\ block_before' = block
            /\ block_call' = BlockCall("append_element", position, element, r.ret)
            /\ caller_element' = element
            /\ element_shared' =
                   SharedAfterStore(r.ret, deepcopy(element),
                                    InsertIndex(block.element_list, position))
            /\ UNCHANGED <<ensemble_vars, sequence_vars, generator_vars, registry_vars,
                           sharing_vars>>

ReplaceKeptElement ==
    \E position \in Positions, element \in Elements :
        LET r == replace_element(block, position, element) IN
            /\ block' = r.self
            /\ block_before' = block
            /\ block_call' = BlockCall("replace_element", position, element, r.ret)
            /\ caller_element' = element
            /\ element_shared' =
                   SharedAfterStore(r.ret, deepcopy(element),
                                    PyIndex(block.element_list, position))
            /\ UNCHANGED <<ensemble_vars, sequence_vars, generator_vars, registry_vars,
                           sharing_vars>>

\* the attributes of the element that the caller assigns to after the call
ElementChanges == {"init_length_s", "increment_s", "pulse_function", "digital_high"}

\* the element e after the caller's assignment: e.init_length_s += 2,
\* e.increment_s += 2, e.pulse_function['a_ch1'] = sf.DC(...) or
\* e.digital_high['d_ch1'] = True.  The channel sets computed in __init__ stay.
ChangedElement(e, attribute) ==
    CASE attribute = "init_length_s" -> [e EXCEPT !.init_length_s = @ + 2]
      [] attribute = "increment_s" -> [e EXCEPT !.increment_s = @ + 2]
      [] attribute = "pulse_function" ->
            [e EXCEPT !.pulse_function =
                [chnl \in (DOMAIN @) \cup {"a_ch1"} |-> "DC"]]
      [] attribute = "digital_high" ->
            [e EXCEPT !.digital_high =
                [chnl \in (DOMAIN @) \cup {"d_ch1"} |->
                    IF chnl = "d_ch1" THEN TRUE ELSE @[chnl]]]

\* the caller changes the element it has passed to the last successful
\* insert_element / append_element / replace_element call; block_call.element
\* records the element as it was before the change
ChangeKeptElement ==
    /\ block_call.op \in {"insert_element", "append_element", "replace_element"}
    /\ block_call.ret = "0"
    /\ caller_element = block_call.element
    /\ \E attribute \in ElementChanges :
          LET changed == ChangedElement(caller_element, attribute) IN
            /\ caller_element' = changed
            /\ block' = [block EXCEPT !.element_list =
                            [k \in DOMAIN @ |->
                                IF k \in element_shared THEN changed ELSE @[k]]]
            /\ block_before' = block
            /\ block_call' = BlockCall("change_element", 0, caller_element, "0")
            /\ UNCHANGED <<element_shared, ensemble_vars, sequence_vars, generator_vars,
                           registry_vars, sharing_vars>>

(***************************************************************************)
(* PulseBlockEnsemble                                                      *)
(***************************************************************************)
\* the step (block_name, reps) as insert_block and replace_block store it: a tuple
BlockStep(block_name, reps) == [type |-> "tuple", name |-> block_name, reps |-> reps]

\* PulseBlockEnsemble(name) with block_list=None and rotating_frame=True
PulseBlockEnsemble(name) ==
    [name                    |-> name,
     rotating_frame          |-> TRUE,
     block_list              |-> <<>>,
     sampling_information    |-> <<>>,
     measurement_information |-> <<>>]

replace_block(self, position, block_name, reps) ==
    IF ~IsStr(block_name) \/ Len(self.block_list) <= position
    THEN [self |-> self, ret |-> "-1"]
    ELSE LET i == PyIndex(self.block_list, position) IN
         IF reps = None
         THEN IF i = 0
              THEN [self |-> self, ret |-> "IndexError"]
              ELSE IF self.block_list[i].type = "tuple"
              THEN [self |-> self, ret |-> "TypeError"]
              ELSE [self |-> [self EXCEPT !.block_list[i].name = block_name],
                    ret |-> "0"]
         ELSE IF TheValue(reps) >= 0
         THEN IF i = 0
              THEN [self |-> self, ret |-> "IndexError"]
              ELSE [self |-> [self EXCEPT
                        !.block_list[i] = BlockStep(block_name, TheValue(reps))],
                    ret |-> "0"]
         ELSE [self |-> self, ret |-> "-1"]

delete_block(self, position) ==
    IF Len(self.block_list) <= position
    THEN [self |-> self, ret |-> "-1"]
    ELSE LET i == PyIndex(self.block_list, position) IN
         IF i = 0
         THEN [self |-> self, ret |-> "IndexError"]
         ELSE [self |-> [self EXCEPT !.block_list = ListDelete(@, i)], ret |-> "0"]

\* insert_block without the test reps < 0
insert_block_without_reps_test(self, position, block_name, reps) ==
    IF ~IsStr(block_name) \/ Len(self.block_list) < position
    THEN [self |-> self, ret |-> "-1"]
    ELSE [self |-> [self EXCEPT
                !.block_list = ListInsert(@, position, BlockStep(block_name, reps))],
          ret |-> "0"]

insert_block(self, position, block_name, reps) ==
    IF ~IsStr(block_name) \/ Len(self.block_list) < position \/ reps < 0
    THEN [self |-> self, ret |-> "-1"]
    ELSE [self |-> [self EXCEPT
                !.block_list = ListInsert(@, position, BlockStep(block_name, reps))],
          ret |-> "0"]

append_block(self, block_name, reps, at_beginning) ==
    insert_block(self, IF at_beginning THEN 0 ELSE Len(self.block_list), block_name, reps)

(***************************************************************************)
(* The calls made on the PulseBlockEnsemble                                *)
(***************************************************************************)
BlockNameArgs == BlockNames \cup {NotAStr}

RepsArgs == {0 - 1, 0, MaxReps}

EnsembleCall(op, position, block_name, reps, ret) ==
    [op |-> op, position |-> position, block_name |-> block_name, reps |-> reps,
     ret |-> ret]

NoEnsembleCall == EnsembleCall("__init__", 0, NotAStr, None, "0")

InsertBlock ==
    \E position \in Positions, block_name \in BlockNameArgs, reps \in RepsArgs :
        LET r == insert_block(ensemble, position, block_name, reps) IN
            /\ Len(r.self.block_list) <= MaxLen
            /\ ensemble' = r.self
            /\ ensemble_before' = ensemble
            /\ ensemble_call' =
                   EnsembleCall("insert_block", position, block_name, Some(reps), r.ret)
            /\ UNCHANGED <<block_vars, sequence_vars, other_vars>>

AppendBlock ==
    \E at_beginning \in BOOLEAN, block_name \in BlockNameArgs, reps \in RepsArgs :
        LET r == append_block(ensemble, block_name, reps, at_beginning) IN
            /\ Len(r.self.block_list) <= MaxLen
            /\ ensemble' = r.self
            /\ ensemble_before' = ensemble
            /\ ensemble_call' =
                   EnsembleCall("append_block",
                                IF at_beginning THEN 0 ELSE Len(ensemble.block_list),
                                block_name, Some(reps), r.ret)
            /\ UNCHANGED <<block_vars, sequence_vars, other_vars>>

ReplaceBlock ==
    \E position \in Positions, block_name \in BlockNameArgs,
       reps \in {None} \cup {Some(n) : n \in RepsArgs} :
        LET r == replace_block(ensemble, position, block_name, reps) IN
            /\ ensemble' = r.self
            /\ ensemble_before' = ensemble
            /\ ensemble_call' =
                   EnsembleCall("replace_block", position, block_name, reps, r.ret)
            /\ UNCHANGED <<block_vars, sequence_vars, other_vars>>

DeleteBlock ==
    \E position \in Positions :
        LET r == delete_block(ensemble, position) IN
            /\ ensemble' = r.self
            /\ ensemble_before' = ensemble
            /\ ensemble_call' = EnsembleCall("delete_block", position, NotAStr, None, r.ret)
            /\ UNCHANGED <<block_vars, sequence_vars, other_vars>>

(***************************************************************************)
(* PulseSequence                                                           *)
(***************************************************************************)
\* the step (ensemble_name, seq_param.copy()) as insert_ensemble and
\* replace_ensemble store it: a tuple
EnsembleStep(ensemble_name, params) ==
    [type |-> "tuple", name |-> ensemble_name, params |-> params]

\* whether params['repetitions'] exists (otherwise the subscript raises KeyError)
HasRepetitions(params) == "repetitions" \in DOMAIN params

\* PulseSequence(name) with ensemble_list=None and rotating_frame=False
PulseSequence(name) ==
    [name                    |-> name,
     rotating_frame          |-> FALSE,
     ensemble_list           |-> <<>>,
     is_finite               |-> TRUE,
     sampling_information    |-> <<>>,
     measurement_information |-> <<>>]

\* the 1-based index of the step at which the loop of refresh_parameters ends
\* (its repetitions are negative or missing), 0 when the loop runs through
RefreshStop(ensemble_list) ==
    LET stops == {k \in 1 .. Len(ensemble_list) :
                    \/ ~HasRepetitions(ensemble_list[k].params)
                    \/ ensemble_list[k].params.repetitions < 0}
    IN  IF stops = {} THEN 0
        ELSE CHOOSE k \in stops : \A j \in stops : k <= j

refresh_parameters(self) ==
    LET k == RefreshStop(self.ensemble_list) IN
        IF k = 0
        THEN [self |-> [self EXCEPT !.is_finite = TRUE], ret |-> "None"]
        ELSE IF ~HasRepetitions(self.ensemble_list[k].params)
        THEN [self |-> [self EXCEPT !.is_finite = TRUE], ret |-> "KeyError"]
        ELSE [self |-> [self EXCEPT !.is_finite = FALSE], ret |-> "None"]

\* the outcome of a mutator that ends with "refresh_parameters(); return 0"
ThenReturn0(refreshed) ==
    [self |-> refreshed.self,
     ret |-> IF refreshed.ret = "None" THEN "0" ELSE refreshed.ret]

\* replace_ensemble without the rescan after a finite step has been written
replace_ensemble_no_rescan(self, position, ensemble_name, seq_param) ==
    IF ~IsStr(ensemble_name) \/ Len(self.ensemble_list) <= position
    THEN [self |-> self, ret |-> "-1"]
    ELSE LET i == PyIndex(self.ensemble_list, position) IN
         IF i = 0
         THEN [self |-> self, ret |-> "IndexError"]
         ELSE IF seq_param = None
         THEN IF self.ensemble_list[i].type = "tuple"
              THEN [self |-> self, ret |-> "TypeError"]
              ELSE [self |-> [self EXCEPT !.ensemble_list[i].name = ensemble_name],
                    ret |-> "0"]
         ELSE LET params == TheValue(seq_param)
                  replaced == [self EXCEPT
                        !.ensemble_list[i] = EnsembleStep(ensemble_name, params)]
              IN  IF ~HasRepetitions(params)
                  THEN [self |-> replaced, ret |-> "KeyError"]
                  ELSE IF params.repetitions < 0 /\ self.is_finite
                  THEN [self |-> [replaced EXCEPT !.is_finite = FALSE], ret |-> "0"]
                  ELSE [self |-> replaced, ret |-> "0"]

replace_ensemble(self, position, ensemble_name, seq_param) ==
    IF ~IsStr(ensemble_name) \/ Len(self.ensemble_list) <= position
    THEN [self |-> self, ret |-> "-1"]
    ELSE LET i == PyIndex(self.ensemble_list, position) IN
         IF i = 0
         THEN [self |-> self, ret |-> "IndexError"]
         ELSE IF seq_param = None
         THEN IF self.ensemble_list[i].type = "tuple"
              THEN [self |-> self, ret |-> "TypeError"]
              ELSE [self |-> [self EXCEPT !.ensemble_list[i].name = ensemble_name],
                    ret |-> "0"]
         ELSE LET params == TheValue(seq_param)
                  replaced == [self EXCEPT
                        !.ensemble_list[i] =
                            EnsembleStep(ensemble_name, dict_copy(params).value)]
              IN  IF ~HasRepetitions(params)
                  THEN [self |-> replaced, ret |-> "KeyError"]
                  ELSE IF params.repetitions < 0 /\ self.is_finite
                  THEN [self |-> [replaced EXCEPT !.is_finite = FALSE], ret |-> "0"]
                  ELSE IF params.repetitions >= 0 /\ ~self.is_finite
                  THEN ThenReturn0(refresh_parameters(replaced))
                  ELSE [self |-> replaced, ret |-> "0"]

\* delete_ensemble without the rescan after an infinite step has been removed
delete_ensemble_no_rescan(self, position) ==
    IF Len(self.ensemble_list) <= position
    THEN [self |-> self, ret |-> "-1"]
    ELSE LET i == PyIndex(self.ensemble_list, position) IN
         IF i = 0
         THEN [self |-> self, ret |-> "IndexError"]
         ELSE IF ~HasRepetitions(self.ensemble_list[i].params)
         THEN [self |-> self, ret |-> "KeyError"]
         ELSE [self |-> [self EXCEPT !.ensemble_list = ListDelete(@, i)], ret |-> "0"]

delete_ensemble(self, position) ==
    IF Len(self.ensemble_list) <= position
    THEN [self |-> self, ret |-> "-1"]
    ELSE LET i == PyIndex(self.ensemble_list, position) IN
         IF i = 0
         THEN [self |-> self, ret |-> "IndexError"]
         ELSE IF ~HasRepetitions(self.ensemble_list[i].params)
         THEN [self |-> self, ret |-> "KeyError"]
         ELSE LET refresh == self.ensemble_list[i].params.repetitions < 0
                  deleted == [self EXCEPT !.ensemble_list = ListDelete(@, i)]
              IN  IF refresh
                  THEN ThenReturn0(refresh_parameters(deleted))
                  ELSE [self |-> deleted, ret |-> "0"]

insert_ensemble(self, position, ensemble_name, seq_param) ==
    IF ~IsStr(ensemble_name) \/ Len(self.ensemble_list) < position
    THEN [self |-> self, ret |-> "-1"]
    ELSE LET inserted == [self EXCEPT
                !.ensemble_list =
                    ListInsert(@, position,
                               EnsembleStep(ensemble_name, dict_copy(seq_param).value))]
         IN  IF ~HasRepetitions(seq_param)
             THEN [self |-> inserted, ret |-> "KeyError"]
             ELSE IF seq_param.repetitions < 0
             THEN [self |-> [inserted EXCEPT !.is_finite = FALSE], ret |-> "0"]
             ELSE [self |-> inserted, ret |-> "0"]

append_ensemble(self, ensemble_name, seq_param, at_beginning) ==
    insert_ensemble(self, IF at_beginning THEN 0 ELSE Len(self.ensemble_list),
                    ensemble_name, seq_param)

(***************************************************************************)
(* The calls made on the PulseSequence                                     *)
(***************************************************************************)
EnsembleNameArgs == EnsembleNames \cup {NotAStr}

\* step parameter dictionaries with repetitions = -1 (infinite), 0 or the
\* largest count
SeqParams == [repetitions : {0 - 1, 0, MaxReps}, go_to : {0 - 1}, event_jump_to : {0 - 1}]

SequenceCall(op, position, ensemble_name, seq_param, ret) ==
    [op |-> op, position |-> position, ensemble_name |-> ensemble_name,
     seq_param |-> seq_param, ret |-> ret]

NoSequenceCall == SequenceCall("__init__", 0, NotAStr, None, "0")

InsertEnsemble ==
    \E position \in Positions, ensemble_name \in EnsembleNameArgs, seq_param \in SeqParams :
        LET r == insert_ensemble(sequence, position, ensemble_name, seq_param) IN
            /\ Len(r.self.ensemble_list) <= MaxLen
            /\ sequence' = r.self
            /\ sequence_before' = sequence
            /\ sequence_call' = SequenceCall("insert_ensemble", position, ensemble_name,
                                             Some(seq_param), r.ret)
            /\ UNCHANGED <<block_vars, ensemble_vars, other_vars>>

AppendEnsemble ==
    \E at_beginning \in BOOLEAN, ensemble_name \in EnsembleNameArgs, seq_param \in SeqParams :
        LET r == append_ensemble(sequence, ensemble_name, seq_param, at_beginning) IN
            /\ Len(r.self.ensemble_list) <= MaxLen
            /\ sequence' = r.self
            /\ sequence_before' = sequence
            /\ sequence_call' =
                   SequenceCall("append_ensemble",
                                IF at_beginning THEN 0 ELSE Len(sequence.ensemble_list),
                                ensemble_name, Some(seq_param), r.ret)
            /\ UNCHANGED <<block_vars, ensemble_vars, other_vars>>

ReplaceEnsemble ==
    \E position \in Positions, ensemble_name \in EnsembleNameArgs,
       seq_param \in {None} \cup {Some(p) : p \in SeqParams} :
        LET r == replace_ensemble(sequence, position, ensemble_name, seq_param) IN
            /\ sequence' = r.self
            /\ sequence_before' = sequence
            /\ sequence_call' = SequenceCall("replace_ensemble", position, ensemble_name,
                                             seq_param, r.ret)
            /\ UNCHANGED <<block_vars, ensemble_vars, other_vars>>

DeleteEnsemble ==
    \E position \in Positions :
        LET r == delete_ensemble(sequence, position) IN
            /\ sequence' = r.self
            /\ sequence_before' = sequence
            /\ sequence_call' =
                   SequenceCall("delete_ensemble", position, NotAStr, None, r.ret)
            /\ UNCHANGED <<block_vars, ensemble_vars, other_vars>>

(***************************************************************************)
(* Dictionary representation of PulseSequence                              *)
(***************************************************************************)
\* PulseSequence(name, ensemble_list, rotating_frame) without its refresh
PulseSequence_init_no_refresh(name, ensemble_list, rotating_frame) ==
    [self |-> [PulseSequence(name) EXCEPT !.ensemble_list = ensemble_list,
                                          !.rotating_frame = rotating_frame],
     ret |-> "None"]

\* PulseSequence(name, ensemble_list, rotating_frame): ret is "None" when the
\* object is constructed and "KeyError" when refresh_parameters raises
PulseSequence_init(name, ensemble_list, rotating_frame) ==
    refresh_parameters([PulseSequence(name) EXCEPT
                            !.ensemble_list = ensemble_list,
                            !.rotating_frame = rotating_frame])

\* PulseSequence.get_dict_representation
sequence_get_dict_representation(self) ==
    [name |-> self.name,
     rotating_frame |-> self.rotating_frame,
     ensemble_list |-> self.ensemble_list,
     sampling_information |-> self.sampling_information,
     measurement_information |-> self.measurement_information]

\* PulseSequence.sequence_from_dict
sequence_from_dict(sequence_dict) ==
    LET new_seq == PulseSequence_init(sequence_dict.name,
                                      sequence_dict.ensemble_list,
                                      sequence_dict.rotating_frame)
    IN  IF new_seq.ret # "None"
        THEN new_seq
        ELSE [self |-> [new_seq.self EXCEPT
                    !.sampling_information = sequence_dict.sampling_information,
                    !.measurement_information = sequence_dict.measurement_information],
              ret |-> "None"]

\* values of the public attributes rotating_frame, sampling_information and
\* measurement_information, which the owner of a sequence assigns
SequenceAttributes ==
    [rotating_frame : BOOLEAN,
     sampling_information : {<<>>, [sample_rate |-> 25]},
     measurement_information : {<<>>, [number_of_lasers |-> 2]}]

\* the sequence self after the owner has assigned the attributes
WithAttributes(self, attributes) ==
    [self EXCEPT !.rotating_frame = attributes.rotating_frame,
                 !.sampling_information = attributes.sampling_information,
                 !.measurement_information = attributes.measurement_information]

(***************************************************************************)
(* PredefinedGeneratorBase                                                 *)
(***************************************************************************)
\* the values of generation_parameters['gate_channel']: '' for no gate channel
GateChannels == {"", "d_ch1"}

\* the SequenceGeneratorLogic objects, given by their generation_parameters
\* (times in the integer unit of Timings; the laser length varies where a
\* helper method reads it)
Logics ==
    {[generation_parameters |-> p] :
        p \in {q \in [gate_channel : GateChannels, laser_length : {3, 4},
                      laser_delay : {1}] :
                    q.gate_channel = "" => q.laser_length = 3}}

DefaultLogic ==
    [generation_parameters |->
        [gate_channel |-> "", laser_length |-> 3, laser_delay |-> 1]]

\* PredefinedGeneratorBase(sequencegeneratorlogic)
PredefinedGeneratorBase(sequencegeneratorlogic) ==
    [sequencegeneratorlogic |-> sequencegeneratorlogic]

\* the property generation_parameters
generation_parameters(self) == self.sequencegeneratorlogic.generation_parameters

\* the property gate_channel: None for ''
gate_channel(self) ==
    LET channel == generation_parameters(self).gate_channel IN
        IF channel = "" THEN None ELSE Some(channel)

\* the property laser_length
laser_length(self) == generation_parameters(self).laser_length

\* the property laser_delay
laser_delay(self) == generation_parameters(self).laser_delay

\* {block.name: block for block in created_blocks}: the names, and for a name
\* the last block of the list that carries it
BlockDictKeys(created_blocks) ==
    {created_blocks[k].name : k \in DOMAIN created_blocks}

BlockDictGet(created_blocks, block_name) ==
    LET ks == {k \in DOMAIN created_blocks : created_blocks[k].name = block_name}
    IN  created_blocks[CHOOSE k \in ks : \A j \in ks : j <= k]

\* reps ** 2 / 2
IncrementCount_without_linear_term(reps) == (reps * reps) \div 2

\* (reps ** 2 + reps) / 2, the number of increments in reps + 1 plays of a
\* block; reps ** 2 + reps is even, so the division is exact
IncrementCount(reps) == (reps * reps + reps) \div 2

\* the loop of _get_ensemble_count_length from step k of block_list on, with
\* the length accumulated so far; exc is "KeyError" when blocks[block_name]
\* fails
RECURSIVE CountLengthLoop(_, _, _, _)
CountLengthLoop(created_blocks, block_list, k, length) ==
    IF k > Len(block_list)
    THEN [ret |-> length, exc |-> "None"]
    ELSE LET block_name == block_list[k].name
             reps == block_list[k].reps
         IN  IF block_name \notin BlockDictKeys(created_blocks)
             THEN [ret |-> 0, exc |-> "KeyError"]
             ELSE LET b == BlockDictGet(created_blocks, block_name) IN
                  CountLengthLoop(created_blocks, block_list, k + 1,
                                  length + b.init_length_s * (reps + 1)
                                         + b.increment_s * IncrementCount(reps))

\* PredefinedGeneratorBase._get_ensemble_count_length: ret is the returned
\* length, exc the exception raised instead ("None" when the method returns)
get_ensemble_count_length(self, ensemble_arg, created_blocks) ==
    IF gate_channel(self) # None
    THEN [ret |-> laser_length(self) + laser_delay(self), exc |-> "None"]
    ELSE CountLengthLoop(created_blocks, ensemble_arg.block_list, 1, 0)

\* the blocks and ensembles passed to _get_ensemble_count_length: blocks of one
\* element, ensembles of up to MaxLen steps with 0 .. MaxCountReps repetitions
CountBlocks ==
    {PulseBlock_init("B1", <<PulseBlockElement(10, 2, <<>>, <<>>)>>).self,
     PulseBlock_init("B2", <<PulseBlockElement(5, 1, <<>>, <<>>)>>).self}

CreatedBlocks == UNION {[1 .. n -> CountBlocks] : n \in 0 .. MaxBlocks}

CountSteps == {BlockStep(name, reps) : name \in BlockNames, reps \in 0 .. MaxCountReps}

CountEnsembles ==
    {[PulseBlockEnsemble("E1") EXCEPT !.block_list = block_list] :
        block_list \in UNION {[1 .. n -> CountSteps] : n \in 0 .. MaxLen}}

HelperCall(op, ensemble_arg, created_blocks, r) ==
    [op |-> op, ensemble |-> ensemble_arg, created_blocks |-> created_blocks,
     ret |-> r.ret, exc |-> r.exc]

NoHelperCall ==
    HelperCall("__init__", PulseBlockEnsemble("E1"), <<>>, [ret |-> 0, exc |-> "None"])

\* one call of the method on the generator (the method changes nothing, so a
\* second call would start from the same objects)
GetEnsembleCountLength ==
    \E ensemble_arg \in CountEnsembles, created_blocks \in CreatedBlocks :
        /\ helper_call = NoHelperCall
        /\ helper_call' = HelperCall("_get_ensemble_count_length", ensemble_arg,
                                     created_blocks,
                                     get_ensemble_count_length(generator, ensemble_arg,
                                                               created_blocks))
        /\ UNCHANGED <<generator, block_vars, ensemble_vars, sequence_vars, caller_vars,
                       registry_vars, sharing_vars>>

(***************************************************************************)
(* PulseObjectGenerator: the generator classes found in the scanned        *)
(* directories and the generate methods of their instances                 *)
(***************************************************************************)
\* A method name, split where method_name[9:] splits it: head is 'generate_'
\* for a name that starts with it (and '' otherwise), tail is the rest.
MethodName(head, tail) == [head |-> head, tail |-> tail]

\* a parameter of a method signature other than self; default is None for
\* param.empty and Some(text of the default value) otherwise
Parameter(name, default) == [name |-> name, default |-> default]

Method(name, parameters) == [name |-> name, parameters |-> parameters]

\* a member of a module as inspect.getmembers lists it: a class with the names
\* of its __bases__ and its methods sorted by name, or another object
Class(name, bases, methods) ==
    [isclass |-> TRUE, name |-> name, bases |-> bases, methods |-> methods]

Function(name) == [isclass |-> FALSE, name |-> name, bases |-> <<>>, methods |-> <<>>]

\* the base class as it is visible in a module that has imported it
BaseClassMember == Class("PredefinedGeneratorBase", <<"object">>, <<>>)

\* a module file: import_ok tells whether executing it succeeds, members are
\* the objects of its namespace sorted by name
Module(import_ok, members) == [import_ok |-> import_ok, members |-> members]

\* class A(PredefinedGeneratorBase) with generate_foo(self, x, y=2) and helper
ModuleA ==
    Module(TRUE,
           <<Class("A", <<"PredefinedGeneratorBase">>,
                   <<Method(MethodName("generate_", "foo"),
                            <<Parameter("x", None), Parameter("y", Some("2"))>>),
                     Method(MethodName("", "helper"), <<>>)>>),
             BaseClassMember>>)

\* class B(PredefinedGeneratorBase) with generate_b(self, name='x') and
\* generate_foo(self, q=5); class C(PredefinedGeneratorBase, Mixin);
\* class D(B); class Mixin; a function
ModuleB ==
    Module(TRUE,
           <<Class("B", <<"PredefinedGeneratorBase">>,
                   <<Method(MethodName("generate_", "b"),
                            <<Parameter("name", Some("'x'"))>>),
                     Method(MethodName("generate_", "foo"),
                            <<Parameter("q", Some("5"))>>)>>),
             Class("C", <<"PredefinedGeneratorBase", "Mixin">>,
                   <<Method(MethodName("generate_", "c"), <<>>)>>),
             Class("D", <<"B">>,
                   <<Method(MethodName("generate_", "d"), <<>>)>>),
             Class("Mixin", <<"object">>, <<>>),
             BaseClassMember,
             Function("make_block")>>)

\* a module whose import raises
ModuleBroken == Module(FALSE, <<>>)

\* "from logic.pulsed.pulse_objects import *" and class P(PredefinedGeneratorBase)
\* with generate_p(self): PulseObjectGenerator is a member of the module
ModuleStar ==
    Module(TRUE,
           <<Class("P", <<"PredefinedGeneratorBase">>,
                   <<Method(MethodName("generate_", "p"), <<>>)>>),
             BaseClassMember,
             Class("PulseObjectGenerator", <<"PredefinedGeneratorBase">>, <<>>)>>)

\* the standard library module copy, which pulse_objects.py has imported
ModuleCopy ==
    Module(TRUE, <<Class("Error", <<"Exception">>, <<>>), Function("deepcopy")>>)

\* sys.modules before the scan, as far as the scanned names meet it
PreloadedModules == [name \in {"copy"} |-> ModuleCopy]

\* the names (without .py) and contents of the files of a scanned directory
ModuleNames == {"basic", "extra", "copy"}

ModuleContents == {ModuleA, ModuleB, ModuleBroken, ModuleStar}

File(name, content) == [name |-> name, content |-> content]

\* the files a scanned directory may hold; copy.py is never loaded, whatever
\* it contains
Files ==
    {File(name, content) : name \in ModuleNames \ DOMAIN PreloadedModules,
                           content \in ModuleContents}
    \cup {File(name, ModuleA) : name \in DOMAIN PreloadedModules}

\* os.listdir of a directory of up to MaxFiles files, in any order
FileLists ==
    {fs \in UNION {[1 .. n -> Files] : n \in 0 .. MaxFiles} :
        \A i, j \in DOMAIN fs : fs[i].name = fs[j].name => i = j}

\* a path of path_list: a directory with its files, or a path that does not exist
Directory(files) == [exists |-> TRUE, files |-> files]

NoDirectory == [exists |-> FALSE, files |-> <<>>]

Paths == {NoDirectory} \cup {Directory(files) : files \in FileLists}

\* path_list: the default directory, and the additional one if
\* additional_methods_dir is a str
PathLists == UNION {[1 .. n -> Paths] : n \in 1 .. 2}

\* d[k] = v that leaves an entry which is already there
DictSet_keeps_existing(d, k, v) ==
    [x \in (DOMAIN d) \cup {k} |-> IF x \in DOMAIN d THEN d[x] ELSE v]

\* d[k] = v on a dict
DictSet(d, k, v) == [x \in (DOMAIN d) \cup {k} |-> IF x = k THEN v ELSE d[x]]

\* PredefinedGeneratorBase in obj.__bases__ without the test of their number
is_generator_class_among_bases(obj) ==
    obj.isclass /\ \E i \in DOMAIN obj.bases : obj.bases[i] = "PredefinedGeneratorBase"

\* PulseObjectGenerator.is_generator_class
is_generator_class(obj) ==
    IF obj.isclass
    THEN /\ \E i \in DOMAIN obj.bases : obj.bases[i] = "PredefinedGeneratorBase"
         /\ Len(obj.bases) = 1
    ELSE FALSE

\* The scan of __import_external_generators.  Its state: sys_modules (the
\* modules imported so far by name), imported (the modules that import_module
\* and reload have returned, in order), class_list, log_errors (the number of
\* self.log.error calls) and raised ("None" while no import has failed).
ScanStart ==
    [sys_modules |-> PreloadedModules, imported |-> <<>>, class_list |-> <<>>,
     log_errors |-> 0, raised |-> "None"]

\* importlib.import_module(module_name) and importlib.reload(mod) for a file of
\* the path just appended to sys.path: a name that is in sys.modules yields
\* that module again, reloaded from where it was first found; any other name
\* is found in the current path, all earlier paths having been imported whole
ImportedModule(scan, file) ==
    IF file.name \in DOMAIN scan.sys_modules
    THEN scan.sys_modules[file.name]
    ELSE file.content

\* the loop over module_list from file k on
RECURSIVE ScanFiles(_, _, _)
ScanFiles(scan, files, k) ==
    IF k > Len(files) \/ scan.raised # "None"
    THEN scan
    ELSE LET mod == ImportedModule(scan, files[k]) IN
         IF ~mod.import_ok
         THEN [scan EXCEPT !.raised = "ImportError"]
         ELSE ScanFiles([scan EXCEPT
                            !.sys_modules = DictSet(@, files[k].name, mod),
                            !.imported = Append(@, mod),
                            !.class_list =
                                @ \o SelectSeq(mod.members, is_generator_class)],
                        files, k + 1)

\* the loop over paths from path k on
RECURSIVE ScanPaths(_, _, _)
ScanPaths(scan, paths, k) ==
    IF k > Len(paths) \/ scan.raised # "None"
    THEN scan
    ELSE IF ~paths[k].exists
    THEN ScanPaths([scan EXCEPT !.log_errors = @ + 1], paths, k + 1)
    ELSE ScanPaths(ScanFiles(scan, paths[k].files, 1), paths, k + 1)

\* PulseObjectGenerator.__import_external_generators
import_external_generators(paths) == ScanPaths(ScanStart, paths, 1)

\* cls(sequencegeneratorlogic) raises: the constructor of PulseObjectGenerator
\* scans the same paths and instantiates the same classes, itself among them,
\* until the interpreter raises RecursionError
InstantiationRaises(cls) == cls.name = "PulseObjectGenerator"

\* the loops of __populate_method_dict from method k of instance i on; the
\* method reference names its instance by the index in instance_list
RECURSIVE PopulateMethods(_, _, _, _)
PopulateMethods(generate_methods, instance_list, i, k) ==
    IF i > Len(instance_list)
    THEN generate_methods
    ELSE IF k > Len(instance_list[i].methods)
    THEN PopulateMethods(generate_methods, instance_list, i + 1, 1)
    ELSE LET method == instance_list[i].methods[k] IN
         IF method.name.head = "generate_"
         THEN PopulateMethods(DictSet(generate_methods, method.name.tail,
                                      [instance |-> i, method |-> method]),
                              instance_list, i, k + 1)
         ELSE PopulateMethods(generate_methods, instance_list, i, k + 1)

\* PulseObjectGenerator.__populate_method_dict
populate_method_dict(instance_list) == PopulateMethods(<<>>, instance_list, 1, 1)

\* __populate_parameter_dict listing only the parameters that have a default
populate_parameter_dict_defaults_only(generate_methods) ==
    [method_name \in DOMAIN generate_methods |->
        LET with_default == SelectSeq(generate_methods[method_name].method.parameters,
                                      LAMBDA param : param.default # None)
        IN  [k \in DOMAIN with_default |->
                [name |-> with_default[k].name,
                 value |-> TheValue(with_default[k].default)]]]

\* PulseObjectGenerator.__populate_parameter_dict: per method the ordered dict
\* of its parameters, 'None' for a parameter without default
populate_parameter_dict(generate_methods) ==
    [method_name \in DOMAIN generate_methods |->
        LET parameters == generate_methods[method_name].method.parameters IN
            [k \in DOMAIN parameters |->
                [name |-> parameters[k].name,
                 value |-> IF parameters[k].default = None
                           THEN "None"
                           ELSE TheValue(parameters[k].default)]]]

\* a PulseObjectGenerator: constructed tells whether __init__ has returned,
\* raised the exception it has raised instead; invoked is the set of generate
\* methods that have been called
NoRegistry ==
    [constructed |-> FALSE, raised |-> "None", log_errors |-> 0,
     imported |-> <<>>, generator_instances |-> <<>>,
     generate_methods |-> <<>>, generate_method_parameters |-> <<>>,
     invoked |-> {}]

\* PulseObjectGenerator(sequencegeneratorlogic), paths being the path_list of
\* the logic.  When the recursion ends in RecursionError, log_errors counts
\* the errors of the outermost scan only.
PulseObjectGenerator_init(paths) ==
    LET scan == import_external_generators(paths)
        scanned == [NoRegistry EXCEPT !.log_errors = scan.log_errors,
                                      !.imported = scan.imported]
    IN  IF scan.raised # "None"
        THEN [scanned EXCEPT !.raised = scan.raised]
        ELSE IF \E i \in DOMAIN scan.class_list : InstantiationRaises(scan.class_list[i])
        THEN [scanned EXCEPT !.raised = "RecursionError"]
        ELSE LET generate_methods == populate_method_dict(scan.class_list) IN
             [scanned EXCEPT
                !.constructed = TRUE,
                !.generator_instances = scan.class_list,
                !.generate_methods = generate_methods,
                !.generate_method_parameters = populate_parameter_dict(generate_methods)]

\* the property predefined_method_parameters
predefined_method_parameters(self) == dict_copy(self.generate_method_parameters)

NoParams == [value |-> <<>>, aliased |-> "none"]

RegistryCall(op, change, key, index) ==
    [op |-> op, change |-> change, key |-> key, index |-> index]

NoRegistryCall == RegistryCall("none", "", "", 0)

ConstructRegistry ==
    /\ registry_call = NoRegistryCall
    /\ registry' = PulseObjectGenerator_init(plugin_dirs)
    /\ registry_before' = registry
    /\ registry_call' = RegistryCall("__init__", "", "", 0)
    /\ UNCHANGED <<plugin_dirs, caller_params, block_vars, ensemble_vars, sequence_vars,
                   caller_vars, generator_vars, sharing_vars>>

ReadMethodParameters ==
    /\ registry.constructed
    /\ caller_params' = predefined_method_parameters(registry)
    /\ registry_before' = registry
    /\ registry_call' = RegistryCall("predefined_method_parameters", "", "", 0)
    /\ UNCHANGED <<plugin_dirs, registry, block_vars, ensemble_vars, sequence_vars,
                   caller_vars, generator_vars, sharing_vars>>

\* the caller's mapping params after params['new_method'] = {} ("add"),
\* del params[key] ("remove") or params[key][name of parameter index] = 99
\* ("default")
ChangedParams(params, change, key, index) ==
    CASE change = "add" -> DictSet(params, "new_method", <<>>)
      [] change = "remove" -> [x \in (DOMAIN params) \ {key} |-> params[x]]
      [] change = "default" ->
            [params EXCEPT ![key] = [@ EXCEPT ![index] = [@ EXCEPT !.value = "99"]]]

\* the caller changes the mapping it has just read.  The registry's own mapping
\* changes with it where the two share the changed object: the outer dict when
\* the caller holds the registry's dict itself, the parameter dict of a method
\* unless the caller holds an independent copy.
ChangeMethodParameters ==
    /\ registry_call.op = "predefined_method_parameters"
    /\ \E change \in {"add", "remove", "default"}, key \in DOMAIN caller_params.value :
          \E index \in (IF change = "default" THEN DOMAIN caller_params.value[key] ELSE {0}) :
            /\ caller_params' =
                  [caller_params EXCEPT !.value = ChangedParams(@, change, key, index)]
            /\ registry' =
                  IF \/ caller_params.aliased = "all"
                     \/ change = "default" /\ caller_params.aliased = "values"
                  THEN [registry EXCEPT !.generate_method_parameters =
                                            ChangedParams(@, change, key, index)]
                  ELSE registry
            /\ registry_before' = registry
            /\ registry_call' = RegistryCall("caller_changes", change, key, index)
    /\ UNCHANGED <<plugin_dirs, block_vars, ensemble_vars, sequence_vars,
                   caller_vars, generator_vars, sharing_vars>>

(***************************************************************************)
(* The caller that keeps the step parameter dict it has passed to the      *)
(* PulseSequence                                                           *)
(***************************************************************************)
\* the dicts the caller passes: an infinite step, a finite one, and a dict
\* that has no 'repetitions'
KeptSeqParams ==
    {p \in SeqParams : p.repetitions <= 0}
    \cup {[go_to |-> 0 - 1, event_jump_to |-> 0 - 1]}

KeptEnsembleNames == {"E1", NotAStr}

\* what a call that has got past its argument test leaves of the caller's
\* dict in the step at the 1-based index
StepSharedAfterStore(r, self, copied, index) ==
    IF r.self.ensemble_list # self.ensemble_list /\ copied.aliased = "all"
    THEN {index}
    ELSE {}

InsertKeptParams ==
    \E position \in Positions, ensemble_name \in KeptEnsembleNames,
       seq_param \in KeptSeqParams :
        LET r == insert_ensemble(sequence, position, ensemble_name, seq_param) IN
            /\ Len(r.self.ensemble_list) <= MaxLen
            /\ sequence' = r.self
            /\ sequence_before' = sequence
            /\ sequence_call' = SequenceCall("insert_ensemble", position, ensemble_name,
                                             Some(seq_param), r.ret)
            /\ caller_seq_param' = Some(seq_param)
            /\ step_shared' =
                  StepSharedAfterStore(r, sequence, dict_copy(seq_param),
                                       InsertIndex(sequence.ensemble_list, position))
            /\ UNCHANGED <<block_vars, ensemble_vars, caller_vars, generator_vars,
                           registry_vars, copy_vars, record_vars>>

AppendKeptParams ==
    \E at_beginning \in BOOLEAN, ensemble_name \in KeptEnsembleNames,
       seq_param \in KeptSeqParams :
        LET position == IF at_beginning THEN 0 ELSE Len(sequence.ensemble_list)
            r == append_ensemble(sequence, ensemble_name, seq_param, at_beginning)
        IN  /\ Len(r.self.ensemble_list) <= MaxLen
            /\ sequence' = r.self
            /\ sequence_before' = sequence
            /\ sequence_call' = SequenceCall("append_ensemble", position, ensemble_name,
                                             Some(seq_param), r.ret)
            /\ caller_seq_param' = Some(seq_param)
            /\ step_shared' =
                  StepSharedAfterStore(r, sequence, dict_copy(seq_param),
                                       InsertIndex(sequence.ensemble_list, position))
            /\ UNCHANGED <<block_vars, ensemble_vars, caller_vars, generator_vars,
                           registry_vars, copy_vars, record_vars>>

ReplaceKeptParams ==
    \E position \in Positions, ensemble_name \in KeptEnsembleNames,
       seq_param \in KeptSeqParams :
        LET r == replace_ensemble(sequence, position, ensemble_name, Some(seq_param)) IN
            /\ sequence' = r.self
            /\ sequence_before' = sequence
            /\ sequence_call' = SequenceCall("replace_ensemble", position, ensemble_name,
                                             Some(seq_param), r.ret)
            /\ caller_seq_param' = Some(seq_param)
            /\ step_shared' =
                  StepSharedAfterStore(r, sequence, dict_copy(seq_param),
                                       PyIndex(sequence.ensemble_list, position))
            /\ UNCHANGED <<block_vars, ensemble_vars, caller_vars, generator_vars,
                           registry_vars, copy_vars, record_vars>>

\* seq_param['repetitions'] = -1 on the caller's dict
ChangedSeqParam(seq_param) ==
    [key \in (DOMAIN seq_param) \cup {"repetitions"} |->
        IF key = "repetitions" THEN 0 - 1 ELSE seq_param[key]]

\* the caller sets 'repetitions' of the dict it has passed to the last
\* successful insert_ensemble / append_ensemble / replace_ensemble call to -1;
\* sequence_call.seq_param records the dict as it was before
ChangeKeptParams ==
    /\ sequence_call.op \in {"insert_ensemble", "append_ensemble", "replace_ensemble"}
    /\ sequence_call.ret = "0"
    /\ caller_seq_param = sequence_call.seq_param
    /\ caller_seq_param # None
    /\ LET changed == ChangedSeqParam(TheValue(caller_seq_param)) IN
         /\ changed # TheValue(caller_seq_param)
         /\ caller_seq_param' = Some(changed)
         /\ sequence' = [sequence EXCEPT !.ensemble_list =
                            [k \in DOMAIN @ |->
                                IF k \in step_shared
                                THEN [@[k] EXCEPT !.params = changed]
                                ELSE @[k]]]
         /\ sequence_before' = sequence
         /\ sequence_call' = SequenceCall("change_seq_param", 0, NotAStr,
                                          caller_seq_param, "0")
    /\ UNCHANGED <<step_shared, block_vars, ensemble_vars, caller_vars, generator_vars,
                   registry_vars, copy_vars, record_vars>>

(***************************************************************************)
(* The PulseSequence reconstructed from the dictionary representation of   *)
(* another one                                                             *)
(***************************************************************************)
\* the entries of get_dict_representation() that are the objects of self and
\* not copies (name and rotating_frame are immutable values)
sequence_get_dict_representation_shared ==
    {"ensemble_list", "sampling_information", "measurement_information"}

\* the entries of sequence_dict that sequence_from_dict hands to the new
\* sequence as they are, without a copy
sequence_from_dict_shared ==
    {"ensemble_list", "sampling_information", "measurement_information"}

\* stands for the value of an attribute that is an object of another sequence
SameObject == "<same object>"

\* the sequence of which own holds SameObject for the attributes in shared,
\* these attributes being the objects of the sequence s
Resolved(own, s, shared) ==
    [attribute \in DOMAIN own |->
        IF attribute \in shared THEN s[attribute] ELSE own[attribute]]

\* the sequence t with SameObject for the attributes in shared
OwnAttributes(t, shared) ==
    [attribute \in DOMAIN t |->
        IF attribute \in shared THEN SameObject ELSE t[attribute]]

\* the sequence s after a call has left the sequence t, which shares the
\* attributes in shared with s
SeenThrough(s, t, shared) ==
    [attribute \in DOMAIN s |->
        IF attribute \in shared THEN t[attribute] ELSE s[attribute]]

\* t = PulseSequence.sequence_from_dict(s.get_dict_representation())
ReconstructSequence ==
    LET r == sequence_from_dict(sequence_get_dict_representation(sequence))
        shared == sequence_get_dict_representation_shared \cap sequence_from_dict_shared
    IN  /\ r.ret = "None"
        /\ sequence_copy' = Some(OwnAttributes(r.self, shared))
        /\ copy_shared' = shared
        /\ sequence_before' = sequence
        /\ sequence_call' = SequenceCall("sequence_from_dict", 0, NotAStr, None, r.ret)
        /\ UNCHANGED <<sequence, block_vars, ensemble_vars, caller_vars, generator_vars,
                       registry_vars, step_caller_vars, record_vars>>

\* the arguments of the calls made on the reconstructed sequence
CopyPositions == 0 .. 1

CopySeqParams == {p \in SeqParams : p.repetitions <= 0}

\* t.insert_ensemble(position, 'E2', seq_param)
InsertEnsembleInCopy ==
    /\ sequence_copy # None
    /\ \E position \in CopyPositions, seq_param \in CopySeqParams :
        LET t == Resolved(TheValue(sequence_copy), sequence, copy_shared)
            r == insert_ensemble(t, position, "E2", seq_param)
        IN  /\ Len(r.self.ensemble_list) <= MaxLen
            /\ sequence_copy' = Some(OwnAttributes(r.self, copy_shared))
            /\ sequence' = SeenThrough(sequence, r.self, copy_shared)
            /\ sequence_before' = sequence
            /\ sequence_call' = SequenceCall("copy.insert_ensemble", position, "E2",
                                             Some(seq_param), r.ret)
    /\ UNCHANGED <<copy_shared, block_vars, ensemble_vars, caller_vars, generator_vars,
                   registry_vars, step_caller_vars, record_vars>>

\* t.replace_ensemble(position, 'E2', seq_param)
ReplaceEnsembleInCopy ==
    /\ sequence_copy # None
    /\ \E position \in CopyPositions, seq_param \in CopySeqParams :
        LET t == Resolved(TheValue(sequence_copy), sequence, copy_shared)
            r == replace_ensemble(t, position, "E2", Some(seq_param))
        IN  /\ sequence_copy' = Some(OwnAttributes(r.self, copy_shared))
            /\ sequence' = SeenThrough(sequence, r.self, copy_shared)
            /\ sequence_before' = sequence
            /\ sequence_call' = SequenceCall("copy.replace_ensemble", position, "E2",
                                             Some(seq_param), r.ret)
    /\ UNCHANGED <<copy_shared, block_vars, ensemble_vars, caller_vars, generator_vars,
                   registry_vars, step_caller_vars, record_vars>>

\* t.delete_ensemble(position)
DeleteEnsembleInCopy ==
    /\ sequence_copy # None
    /\ \E position \in CopyPositions :
        LET t == Resolved(TheValue(sequence_copy), sequence, copy_shared)
            r == delete_ensemble(t, position)
        IN  /\ sequence_copy' = Some(OwnAttributes(r.self, copy_shared))
            /\ sequence' = SeenThrough(sequence, r.self, copy_shared)
            /\ sequence_before' = sequence
            /\ sequence_call' = SequenceCall("copy.delete_ensemble", position, NotAStr,
                                             None, r.ret)
    /\ UNCHANGED <<copy_shared, block_vars, ensemble_vars, caller_vars, generator_vars,
                   registry_vars, step_caller_vars, record_vars>>

(***************************************************************************)
(* The dictionary passed to element_from_dict and block_from_dict          *)
(***************************************************************************)
\* a sampling function object as a value of element_dict['pulse_function']
SamplingFunctionObject(func) == [object |-> func]

\* whether v['key'] is possible: v is a dict, and neither a sampling function
\* object nor a PulseBlockElement (for which the subscript raises TypeError)
IsSubscriptable(v) == (DOMAIN v) \cap {"object", "type"} = {}

\* PulseBlockElement.element_from_dict(element_dict): the outcome ret, the
\* element built (value) and element_dict as the call leaves it.  The loop
\* replaces the entries of element_dict['pulse_function'] in place; the
\* elements of this model have one analog channel at most, so that no entry is
\* replaced before one that raises.
element_from_dict_in_place(element_dict) ==
    IF \/ ~IsSubscriptable(element_dict)
       \/ \E chnl \in DOMAIN element_dict.pulse_function :
             ~IsSubscriptable(element_dict.pulse_function[chnl])
    THEN [ret |-> "TypeError", value |-> None, dict |-> element_dict]
    ELSE [ret   |-> "None",
          value |-> Some(element_from_dict(element_dict)),
          dict  |-> [element_dict EXCEPT
                        !.pulse_function =
                            [chnl \in DOMAIN @ |->
                                SamplingFunctionObject(
                                    SamplingFunctionFromDict(@[chnl]))]]]

\* the loop of PulseBlock.block_from_dict from entry ii (1-based) on: every
\* entry of block_dict['element_list'] is replaced by the element built from it
RECURSIVE BlockFromDictLoop(_, _)
BlockFromDictLoop(block_dict, ii) ==
    IF ii > Len(block_dict.element_list)
    THEN [ret |-> "None", dict |-> block_dict]
    ELSE LET r == element_from_dict_in_place(block_dict.element_list[ii]) IN
         IF r.ret # "None"
         THEN [ret |-> r.ret, dict |-> block_dict]
         ELSE BlockFromDictLoop([block_dict EXCEPT
                                    !.element_list[ii] = TheValue(r.value)],
                                ii + 1)

\* PulseBlock.block_from_dict(block_dict): the outcome ret, the block built
\* (value) and block_dict as the call leaves it
block_from_dict_in_place(block_dict) ==
    LET loop == BlockFromDictLoop(block_dict, 1) IN
        IF loop.ret # "None"
        THEN [ret |-> loop.ret, value |-> None, dict |-> loop.dict]
        ELSE LET new_block == PulseBlock_init(loop.dict.name, loop.dict.element_list) IN
             [ret   |-> new_block.ret,
              value |-> IF new_block.ret = "None" THEN Some(new_block.self) ELSE None,
              dict  |-> loop.dict]

\* the number of from_dict calls made with one dictionary
FromDictCalls == 3

CallerDict(kind, taken, value) == [kind |-> kind, taken |-> taken, value |-> value]

NoDict == CallerDict("none", <<>>, <<>>)

\* d = element.get_dict_representation()
TakeElementDict ==
    \E element \in Elements :
        LET d == element_get_dict_representation(element) IN
            /\ caller_dict' = CallerDict("element", d, d)
            /\ from_dict_results' = <<>>
            /\ UNCHANGED <<block_vars, ensemble_vars, sequence_vars, caller_vars,
                           generator_vars, registry_vars, step_caller_vars, copy_vars>>

\* the element lists of the blocks whose dictionary the caller takes
ElementLists == UNION {[1 .. n -> Elements] : n \in 0 .. MaxLen}

\* d = PulseBlock('B1', element_list).get_dict_representation()
TakeBlockDict ==
    \E element_list \in ElementLists :
        LET new_block == PulseBlock_init("B1", element_list)
            d == block_get_dict_representation(new_block.self)
        IN  /\ new_block.ret = "None"
            /\ caller_dict' = CallerDict("block", d, d)
            /\ from_dict_results' = <<>>
            /\ UNCHANGED <<block_vars, ensemble_vars, sequence_vars, caller_vars,
                           generator_vars, registry_vars, step_caller_vars, copy_vars>>

\* PulseBlockElement.element_from_dict(d)
ElementFromDict ==
    /\ caller_dict.kind = "element"
    /\ Len(from_dict_results) < FromDictCalls
    /\ LET r == element_from_dict_in_place(caller_dict.value) IN
         /\ caller_dict' = [caller_dict EXCEPT !.value = r.dict]
         /\ from_dict_results' = Append(from_dict_results,
                                        [ret |-> r.ret, value |-> r.value])
    /\ UNCHANGED <<block_vars, ensemble_vars, sequence_vars, caller_vars,
                   generator_vars, registry_vars, step_caller_vars, copy_vars>>

\* PulseBlock.block_from_dict(d)
BlockFromDict ==
    /\ caller_dict.kind = "block"
    /\ Len(from_dict_results) < FromDictCalls
    /\ LET r == block_from_dict_in_place(caller_dict.value) IN
         /\ caller_dict' = [caller_dict EXCEPT !.value = r.dict]
         /\ from_dict_results' = Append(from_dict_results,
                                        [ret |-> r.ret, value |-> r.value])
    /\ UNCHANGED <<block_vars, ensemble_vars, sequence_vars, caller_vars,
                   generator_vars, registry_vars, step_caller_vars, copy_vars>>

(***************************************************************************)
(* PredefinedGeneratorBase: the helper methods that build elements         *)
(***************************************************************************)
\* the sampling functions sf.Idle(), sf.DC(voltage), sf.Sin(...),
\* sf.DoubleSin(...) and sf.TripleSin(...), each given by its class name and
\* its constructor parameters
sf_Idle == [name |-> "Idle", params |-> <<>>]

sf_DC(voltage) == [name |-> "DC", params |-> [voltage |-> voltage]]

sf_Sin(amplitude, frequency, phase) ==
    [name |-> "Sin",
     params |-> [amplitude |-> amplitude, frequency |-> frequency, phase |-> phase]]

sf_DoubleSin(amplitude_1, amplitude_2, frequency_1, frequency_2, phase_1, phase_2) ==
    [name |-> "DoubleSin",
     params |-> [amplitude_1 |-> amplitude_1, amplitude_2 |-> amplitude_2,
                 frequency_1 |-> frequency_1, frequency_2 |-> frequency_2,
                 phase_1 |-> phase_1, phase_2 |-> phase_2]]

sf_TripleSin(amplitude_1, amplitude_2, amplitude_3, frequency_1, frequency_2, frequency_3, phase_1, phase_2, phase_3) ==
    [name |-> "TripleSin",
     params |-> [amplitude_1 |-> amplitude_1, amplitude_2 |-> amplitude_2,
                 amplitude_3 |-> amplitude_3,
                 frequency_1 |-> frequency_1, frequency_2 |-> frequency_2,
                 frequency_3 |-> frequency_3,
                 phase_1 |-> phase_1, phase_2 |-> phase_2, phase_3 |-> phase_3]]

\* the values of pulse_generator_settings.get('activation_config'): None, or
\* the pair of a name and the set of active channels
ActivationConfigs ==
    {None,
     Some(<<"c1", {"a_ch1", "d_ch1"}>>),
     Some(<<"c2", {"a_ch1", "a_ch2", "d_ch1", "d_ch2"}>>),
     Some(<<"c3", {"d_ch1", "d_ch2"}>>)}

\* the SequenceGeneratorLogic objects whose settings the element helpers read;
\* '' stands for a channel that is not assigned
HelperLogics ==
    {[pulse_generator_settings |-> [activation_config |-> config],
      generation_parameters |-> p] :
        config \in ActivationConfigs,
        p \in [laser_channel : {"d_ch1", "a_ch1", "d_ch2"},
               sync_channel : {"", "d_ch1"},
               gate_channel : {"", "d_ch2", "a_ch2"},
               microwave_channel : {"", "a_ch1", "d_ch1", "a_ch2"},
               analog_trigger_voltage : {2},
               laser_delay : {1},
               laser_length : {3}]}

\* the property pulse_generator_settings
pulse_generator_settings(self) == self.sequencegeneratorlogic.pulse_generator_settings

\* the property channel_set
channel_set(self) ==
    LET channels == pulse_generator_settings(self).activation_config IN
        IF channels = None THEN {} ELSE TheValue(channels)[2]

\* the property analog_channels
analog_channels(self) == {chnl \in channel_set(self) : IsAnalog(chnl)}

\* the property digital_channels
digital_channels(self) == {chnl \in channel_set(self) : IsDigital(chnl)}

\* the property laser_channel
laser_channel(self) == generation_parameters(self).laser_channel

\* the property sync_channel: None for ''
sync_channel(self) ==
    LET channel == generation_parameters(self).sync_channel IN
        IF channel = "" THEN None ELSE Some(channel)

\* the property analog_trigger_voltage
analog_trigger_voltage(self) == generation_parameters(self).analog_trigger_voltage

\* the property microwave_channel: None for ''
microwave_channel(self) ==
    LET channel == generation_parameters(self).microwave_channel IN
        IF channel = "" THEN None ELSE Some(channel)

\* the arguments that are a str, a list, a number or None
StrArg(s) == [type |-> "str", str |-> s, int |-> 0, list |-> <<>>]

ListArg(lst) == [type |-> "list", str |-> "", int |-> 0, list |-> lst]

IntArg(n) == [type |-> "int", str |-> "", int |-> n, list |-> <<>>]

NoneArg == [type |-> "NoneType", str |-> "", int |-> 0, list |-> <<>>]

\* the channel assignment channel (None or a name) as an argument
ChannelArg(channel) == IF channel = None THEN NoneArg ELSE StrArg(TheValue(channel))

\* what a helper method returns (ret) or raises (exc)
Returned(element) == [ret |-> element, exc |-> "None"]

Raised(exc) == [ret |-> NotAnElement, exc |-> exc]

\* element.digital_high[chnl] = True and element.pulse_function[chnl] = func on
\* an element that exists: its channel sets were computed by the constructor and
\* stay as they are
SetDigitalHigh(element, chnl) ==
    [element EXCEPT !.digital_high = DictSet(@, chnl, TRUE)]

SetPulseFunction(element, chnl, func) ==
    [element EXCEPT !.pulse_function = DictSet(@, chnl, func)]

\* _get_idle_element without the digital channels
get_idle_element_analog_only(self, length, increment) ==
    Returned(PulseBlockElement(length, increment,
                               [chnl \in analog_channels(self) |-> sf_Idle],
                               <<>>))

\* PredefinedGeneratorBase._get_idle_element
get_idle_element(self, length, increment) ==
    Returned(PulseBlockElement(length, increment,
                               [chnl \in analog_channels(self) |-> sf_Idle],
                               [chnl \in digital_channels(self) |-> FALSE]))

\* the loop of _get_trigger_element over channels from entry k on
RECURSIVE TriggerLoop(_, _, _, _)
TriggerLoop(self, dicts, channels, k) ==
    IF k > Len(channels)
    THEN dicts
    ELSE LET channel == channels[k] IN
         IF IsDigital(channel)
         THEN TriggerLoop(self,
                          [dicts EXCEPT !.digital_high = DictSet(@, channel, TRUE)],
                          channels, k + 1)
         ELSE TriggerLoop(self,
                          [dicts EXCEPT !.pulse_function =
                              DictSet(@, channel, sf_DC(analog_trigger_voltage(self)))],
                          channels, k + 1)

\* if isinstance(channels, str): channels = [channels]
ChannelList(channels) ==
    IF channels.type = "str" THEN <<channels.str>> ELSE channels.list

\* _get_trigger_element in which a named analog channel stays idle
get_trigger_element_digital_only(self, length, increment, channels) ==
    IF channels.type = "NoneType"
    THEN Raised("TypeError")
    ELSE LET dicts == TriggerLoop(self,
                                  [pulse_function |->
                                       [chnl \in analog_channels(self) |-> sf_Idle],
                                   digital_high |->
                                       [chnl \in digital_channels(self) |-> FALSE]],
                                  SelectSeq(ChannelList(channels), IsDigital), 1)
         IN  Returned(PulseBlockElement(length, increment, dicts.pulse_function,
                                        dicts.digital_high))

\* PredefinedGeneratorBase._get_trigger_element: iterating over None raises
\* TypeError
get_trigger_element(self, length, increment, channels) ==
    IF channels.type = "NoneType"
    THEN Raised("TypeError")
    ELSE LET dicts == TriggerLoop(self,
                                  [pulse_function |->
                                       [chnl \in analog_channels(self) |-> sf_Idle],
                                   digital_high |->
                                       [chnl \in digital_channels(self) |-> FALSE]],
                                  ChannelList(channels), 1)
         IN  Returned(PulseBlockElement(length, increment, dicts.pulse_function,
                                        dicts.digital_high))

\* PredefinedGeneratorBase._get_laser_element
get_laser_element(self, length, increment) ==
    get_trigger_element(self, length, increment, StrArg(laser_channel(self)))

\* PredefinedGeneratorBase._get_laser_gate_element
get_laser_gate_element(self, length, increment) ==
    LET laser_gate_element == get_laser_element(self, length, increment) IN
        IF laser_gate_element.exc # "None" \/ gate_channel(self) = None
        THEN laser_gate_element
        ELSE LET gate == TheValue(gate_channel(self)) IN
             IF IsDigital(gate)
             THEN Returned(SetDigitalHigh(laser_gate_element.ret, gate))
             ELSE Returned(SetPulseFunction(laser_gate_element.ret, gate,
                                            sf_DC(analog_trigger_voltage(self))))

\* PredefinedGeneratorBase._get_delay_element
get_delay_element(self) == get_idle_element(self, laser_delay(self), 0)

\* PredefinedGeneratorBase._get_delay_gate_element
get_delay_gate_element(self) ==
    IF gate_channel(self) # None
    THEN get_trigger_element(self, laser_delay(self), 0, ChannelArg(gate_channel(self)))
    ELSE get_delay_element(self)

\* 50e-9 s, in ns
SyncLength == 50

\* PredefinedGeneratorBase._get_sync_element
get_sync_element(self) ==
    get_trigger_element(self, SyncLength, 0, ChannelArg(sync_channel(self)))

\* PredefinedGeneratorBase._get_mw_element: None.startswith raises AttributeError
get_mw_element(self, length, increment, amp, freq, phase) ==
    IF microwave_channel(self) = None
    THEN Raised("AttributeError")
    ELSE LET channel == TheValue(microwave_channel(self)) IN
         IF IsDigital(channel)
         THEN get_trigger_element(self, length, increment, StrArg(channel))
         ELSE Returned(SetPulseFunction(get_idle_element(self, length, increment).ret,
                                        channel, sf_Sin(amp, freq, phase)))

\* min(a, b, c)
min(a, b, c) ==
    IF a <= b /\ a <= c THEN a ELSE IF b <= c THEN b ELSE c

\* if isinstance(amps, (int, float)): amps = [amps], and so for freqs, phases
ToneList(arg) == IF arg.type = "int" THEN <<arg.int>> ELSE arg.list

\* _get_multiple_mw_element with sine_number = len(amps)
get_multiple_mw_element_counts_amps(self, length, increment, amps, freqs, phases) ==
    IF microwave_channel(self) = None
    THEN Raised("AttributeError")
    ELSE LET channel == TheValue(microwave_channel(self))
             a == ToneList(amps)
             f == ToneList(freqs)
             p == ToneList(phases)
             sine_number == Len(a)
             mw_element == get_idle_element(self, length, increment).ret
         IN  IF IsDigital(channel)
             THEN get_trigger_element(self, length, increment, StrArg(channel))
             ELSE IF sine_number < 2
             THEN IF Len(a) = 0 \/ Len(f) = 0 \/ Len(p) = 0
                  THEN Raised("IndexError")
                  ELSE Returned(SetPulseFunction(mw_element, channel,
                                                 sf_Sin(a[1], f[1], p[1])))
             ELSE IF sine_number = 2
             THEN IF Len(f) < 2 \/ Len(p) < 2
                  THEN Raised("IndexError")
                  ELSE Returned(SetPulseFunction(mw_element, channel,
                                    sf_DoubleSin(a[1], a[2], f[1], f[2], p[1], p[2])))
             ELSE IF Len(f) < 3 \/ Len(p) < 3
                  THEN Raised("IndexError")
                  ELSE Returned(SetPulseFunction(mw_element, channel,
                                    sf_TripleSin(a[1], a[2], a[3], f[1], f[2], f[3],
                                                 p[1], p[2], p[3])))

\* PredefinedGeneratorBase._get_multiple_mw_element: amps[0] on an empty list
\* raises IndexError
get_multiple_mw_element(self, length, increment, amps, freqs, phases) ==
    IF microwave_channel(self) = None
    THEN Raised("AttributeError")
    ELSE LET channel == TheValue(microwave_channel(self))
             a == ToneList(amps)
             f == ToneList(freqs)
             p == ToneList(phases)
             sine_number == min(Len(a), Len(f), Len(p))
             mw_element == get_idle_element(self, length, increment).ret
         IN  IF IsDigital(channel)
             THEN get_trigger_element(self, length, increment, StrArg(channel))
             ELSE IF sine_number < 2
             THEN IF sine_number = 0
                  THEN Raised("IndexError")
                  ELSE Returned(SetPulseFunction(mw_element, channel,
                                                 sf_Sin(a[1], f[1], p[1])))
             ELSE IF sine_number = 2
             THEN Returned(SetPulseFunction(mw_element, channel,
                               sf_DoubleSin(a[1], a[2], f[1], f[2], p[1], p[2])))
             ELSE Returned(SetPulseFunction(mw_element, channel,
                               sf_TripleSin(a[1], a[2], a[3], f[1], f[2], f[3],
                                            p[1], p[2], p[3])))

\* PredefinedGeneratorBase._get_mw_laser_element
get_mw_laser_element(self, length, increment, amp, freq, phase) ==
    LET mw_laser_element == get_mw_element(self, length, increment, amp, freq, phase) IN
        IF mw_laser_element.exc # "None"
        THEN mw_laser_element
        ELSE IF IsDigital(laser_channel(self))
        THEN Returned(SetDigitalHigh(mw_laser_element.ret, laser_channel(self)))
        ELSE Returned(SetPulseFunction(mw_laser_element.ret, laser_channel(self),
                                       sf_DC(analog_trigger_voltage(self))))

(***************************************************************************)
(* The calls of the helper methods                                         *)
(***************************************************************************)
\* the arguments of a call; 0 and NoneArg stand for those that the method
\* does not have
HelperArgs(length, increment, channels, amps, freqs, phases) ==
    [length |-> length, increment |-> increment, channels |-> channels,
     amps |-> amps, freqs |-> freqs, phases |-> phases]

ElementCall(op, args, r) == [op |-> op, args |-> args, ret |-> r.ret, exc |-> r.exc]

NoElementCall ==
    ElementCall("__init__", HelperArgs(0, 0, NoneArg, NoneArg, NoneArg, NoneArg),
                Returned(NotAnElement))

\* the channels arguments passed to _get_trigger_element
TriggerChannelArgs ==
    {StrArg("d_ch1"), StrArg("a_ch1"), StrArg("d_ch2"),
     ListArg(<<"d_ch1", "a_ch2">>), ListArg(<<>>), NoneArg}

\* the amps, freqs and phases arguments: the lists base + 1, base + 2, ... of
\* the lengths in lengths, and one number
ToneArgs(base, lengths) ==
    {ListArg([k \in 1 .. n |-> base + k]) : n \in lengths} \cup {IntArg(base + 9)}

\* the amp, freq and phase passed to _get_mw_element and _get_mw_laser_element
MwTone == [amp |-> 1, freq |-> 11, phase |-> 21]

IdleCalls(self, timings) ==
    {ElementCall("_get_idle_element",
                 HelperArgs(t[1], t[2], NoneArg, NoneArg, NoneArg, NoneArg),
                 get_idle_element(self, t[1], t[2])) : t \in timings}

TriggerCalls(self, timings) ==
    {ElementCall("_get_trigger_element",
                 HelperArgs(c[1][1], c[1][2], c[2], NoneArg, NoneArg, NoneArg),
                 get_trigger_element(self, c[1][1], c[1][2], c[2])) :
        c \in timings \X TriggerChannelArgs}

LaserCalls(self, timings) ==
    {ElementCall("_get_laser_element",
                 HelperArgs(t[1], t[2], NoneArg, NoneArg, NoneArg, NoneArg),
                 get_laser_element(self, t[1], t[2])) : t \in timings}

LaserGateCalls(self, timings) ==
    {ElementCall("_get_laser_gate_element",
                 HelperArgs(t[1], t[2], NoneArg, NoneArg, NoneArg, NoneArg),
                 get_laser_gate_element(self, t[1], t[2])) : t \in timings}

DelayCalls(self) ==
    {ElementCall("_get_delay_element",
                 HelperArgs(0, 0, NoneArg, NoneArg, NoneArg, NoneArg),
                 get_delay_element(self))}

DelayGateCalls(self) ==
    {ElementCall("_get_delay_gate_element",
                 HelperArgs(0, 0, NoneArg, NoneArg, NoneArg, NoneArg),
                 get_delay_gate_element(self))}

SyncCalls(self) ==
    {ElementCall("_get_sync_element",
                 HelperArgs(0, 0, NoneArg, NoneArg, NoneArg, NoneArg),
                 get_sync_element(self))}

MwCalls(self, timings) ==
    {ElementCall("_get_mw_element",
                 HelperArgs(t[1], t[2], NoneArg, IntArg(MwTone.amp), IntArg(MwTone.freq),
                            IntArg(MwTone.phase)),
                 get_mw_element(self, t[1], t[2], MwTone.amp, MwTone.freq,
                                MwTone.phase)) : t \in timings}

MultipleMwCalls(self, timings, lengths) ==
    {ElementCall("_get_multiple_mw_element",
                 HelperArgs(c[1][1], c[1][2], NoneArg, c[2], c[3], c[4]),
                 get_multiple_mw_element(self, c[1][1], c[1][2], c[2], c[3], c[4])) :
        c \in timings \X ToneArgs(0, lengths) \X ToneArgs(10, lengths)
                \X ToneArgs(20, lengths)}

MwLaserCalls(self, timings) ==
    {ElementCall("_get_mw_laser_element",
                 HelperArgs(t[1], t[2], NoneArg, IntArg(MwTone.amp), IntArg(MwTone.freq),
                            IntArg(MwTone.phase)),
                 get_mw_laser_element(self, t[1], t[2], MwTone.amp, MwTone.freq,
                                      MwTone.phase)) : t \in timings}

\* the timing of the multi-tone calls
ToneTimings == {<<10, 0>>}

\* what a call of a helper method leaves as it is
not_helper_call_vars ==
    <<generator, block_vars, ensemble_vars, sequence_vars, caller_vars, registry_vars,
      sharing_vars>>

\* one call of a helper method on the generator (the methods change nothing, so
\* a second call would start from the same objects)
GetIdleElement ==
    /\ helper_call.op = "__init__"
    /\ \E call \in IdleCalls(generator, Timings) : helper_call' = call
    /\ UNCHANGED not_helper_call_vars

GetTriggerElement ==
    /\ helper_call.op = "__init__"
    /\ \E call \in TriggerCalls(generator, Timings) : helper_call' = call
    /\ UNCHANGED not_helper_call_vars

GetLaserElement ==
    /\ helper_call.op = "__init__"
    /\ \E call \in LaserCalls(generator, Timings) : helper_call' = call
    /\ UNCHANGED not_helper_call_vars

GetLaserGateElement ==
    /\ helper_call.op = "__init__"
    /\ \E call \in LaserGateCalls(generator, Timings) : helper_call' = call
    /\ UNCHANGED not_helper_call_vars

GetDelayElement ==
    /\ helper_call.op = "__init__"
    /\ \E call \in DelayCalls(generator) : helper_call' = call
    /\ UNCHANGED not_helper_call_vars

GetDelayGateElement ==
    /\ helper_call.op = "__init__"
    /\ \E call \in DelayGateCalls(generator) : helper_call' = call
    /\ UNCHANGED not_helper_call_vars

GetSyncElement ==
    /\ helper_call.op = "__init__"
    /\ \E call \in SyncCalls(generator) : helper_call' = call
    /\ UNCHANGED not_helper_call_vars

GetMwElement ==
    /\ helper_call.op = "__init__"
    /\ \E call \in MwCalls(generator, Timings) : helper_call' = call
    /\ UNCHANGED not_helper_call_vars

GetMultipleMwElement ==
    /\ helper_call.op = "__init__"
    /\ \E call \in MultipleMwCalls(generator, ToneTimings, 0 .. MaxTones) : helper_call' = call
    /\ UNCHANGED not_helper_call_vars

GetMwLaserElement ==
    /\ helper_call.op = "__init__"
    /\ \E call \in MwLaserCalls(generator, Timings) : helper_call' = call
    /\ UNCHANGED not_helper_call_vars

\* the helper calls whose elements a generate method appends to a block
AppendCalls(self) ==
    IdleCalls(self, ToneTimings) \cup TriggerCalls(self, ToneTimings)
    \cup LaserCalls(self, ToneTimings) \cup LaserGateCalls(self, ToneTimings)
    \cup DelayCalls(self) \cup DelayGateCalls(self) \cup SyncCalls(self)
    \cup MwCalls(self, ToneTimings) \cup MultipleMwCalls(self, ToneTimings, {1})
    \cup MwLaserCalls(self, ToneTimings)

\* block.append_element(self._get_..._element(...)) in a generate method
AppendHelperElement ==
    \E call \in AppendCalls(generator) :
        LET r == append_element(block, call.ret, FALSE) IN
            /\ call.exc = "None"
            /\ Len(r.self.element_list) <= MaxLen
            /\ helper_call' = call
            /\ block' = r.self
            /\ block_before' = block
            /\ block_call' = BlockCall("append_element", Len(block.element_list),
                                       call.ret, r.ret)
            /\ UNCHANGED <<generator, ensemble_vars, sequence_vars, caller_vars,
                           registry_vars, sharing_vars>>

\* the SequenceGeneratorLogic objects of the generators whose elements are
\* appended to a block
BlockLogics ==
    {logic \in HelperLogics :
        /\ logic.pulse_generator_settings.activation_config
              \in {Some(<<"c1", {"a_ch1", "d_ch1"}>>),
                   Some(<<"c2", {"a_ch1", "a_ch2", "d_ch1", "d_ch2"}>>)}
        /\ logic.generation_parameters.sync_channel = "d_ch1"
        /\ logic.generation_parameters.microwave_channel \in {"a_ch1", "d_ch1"}}

(***************************************************************************)
(* Specifications: one object of each class, edited from its empty state.  *)
(***************************************************************************)
InitContainers ==
    /\ block = PulseBlock("B1")
    /\ block_before = PulseBlock("B1")
    /\ block_call = NoBlockCall
    /\ ensemble = PulseBlockEnsemble("E1")
    /\ ensemble_before = PulseBlockEnsemble("E1")
    /\ ensemble_call = NoEnsembleCall
    /\ sequence = PulseSequence("S1")
    /\ sequence_before = PulseSequence("S1")
    /\ sequence_call = NoSequenceCall
    /\ caller_element = NotAnElement
    /\ element_shared = {}

\* a generator whose helper methods are not called
InitGenerator ==
    /\ generator = PredefinedGeneratorBase(DefaultLogic)
    /\ helper_call = NoHelperCall

\* no PulseObjectGenerator is constructed
InitRegistry ==
    /\ plugin_dirs = <<NoDirectory>>
    /\ registry = NoRegistry
    /\ registry_before = NoRegistry
    /\ registry_call = NoRegistryCall
    /\ caller_params = NoParams

\* no caller holds an object of a container
InitSharing ==
    /\ caller_seq_param = None
    /\ step_shared = {}
    /\ sequence_copy = None
    /\ copy_shared = {}
    /\ caller_dict = NoDict
    /\ from_dict_results = <<>>

Init == InitContainers /\ InitGenerator /\ InitRegistry /\ InitSharing

\* the PulseBlock mutators
Next == InsertElement \/ AppendElement \/ ReplaceElement \/ DeleteElement

Spec == Init /\ [][Next]_vars

\* the PulseBlockEnsemble mutators
NextEnsemble == InsertBlock \/ AppendBlock \/ ReplaceBlock \/ DeleteBlock

SpecEnsemble == Init /\ [][NextEnsemble]_vars

\* the PulseSequence mutators
NextSequence == InsertEnsemble \/ AppendEnsemble \/ ReplaceEnsemble \/ DeleteEnsemble

SpecSequence == Init /\ [][NextSequence]_vars

\* the PulseBlock mutators that store an element, and the caller changing that
\* element afterwards
NextCaller ==
    \/ InsertKeptElement
    \/ AppendKeptElement
    \/ ReplaceKeptElement
    \/ ChangeKeptElement

SpecCaller == Init /\ [][NextCaller]_vars

\* _get_ensemble_count_length called on a generator with any of the settings
InitCountLength ==
    /\ InitContainers
    /\ generator \in {PredefinedGeneratorBase(logic) : logic \in Logics}
    /\ helper_call = NoHelperCall
    /\ InitRegistry
    /\ InitSharing

NextCountLength == GetEnsembleCountLength

SpecCountLength == InitCountLength /\ [][NextCountLength]_vars

\* a PulseObjectGenerator constructed over any of the directories, and a caller
\* reading and changing its parameter mapping
InitRegistryScan ==
    /\ InitContainers
    /\ InitGenerator
    /\ plugin_dirs \in PathLists
    /\ registry = NoRegistry
    /\ registry_before = NoRegistry
    /\ registry_call = NoRegistryCall
    /\ caller_params = NoParams
    /\ InitSharing

NextRegistry ==
    \/ ConstructRegistry
    \/ ReadMethodParameters
    \/ ChangeMethodParameters

SpecRegistry == InitRegistryScan /\ [][NextRegistry]_vars

\* the PulseSequence mutators called with step parameter dicts that the caller
\* keeps, a dict without 'repetitions' among them, and the caller changing
\* the dict afterwards
NextStepCaller ==
    \/ InsertKeptParams
    \/ AppendKeptParams
    \/ ReplaceKeptParams
    \/ DeleteEnsemble
    \/ ChangeKeptParams

SpecStepCaller == Init /\ [][NextStepCaller]_vars

\* a PulseSequence, the sequence reconstructed from its dictionary
\* representation, and the mutators called on the reconstructed one
NextReconstructed ==
    \/ InsertEnsemble
    \/ ReconstructSequence
    \/ InsertEnsembleInCopy
    \/ ReplaceEnsembleInCopy
    \/ DeleteEnsembleInCopy

SpecReconstructed == Init /\ [][NextReconstructed]_vars

\* the dictionary representation of an element or of a block passed to
\* element_from_dict / block_from_dict up to FromDictCalls times
NextFromDict ==
    \/ TakeElementDict
    \/ TakeBlockDict
    \/ ElementFromDict
    \/ BlockFromDict

SpecFromDict == Init /\ [][NextFromDict]_vars

\* a generator over any of the settings, and one call of a helper method
InitHelpers ==
    /\ InitContainers
    /\ generator \in {PredefinedGeneratorBase(logic) : logic \in HelperLogics}
    /\ helper_call = NoElementCall
    /\ InitRegistry
    /\ InitSharing

NextHelpers ==
    \/ GetIdleElement
    \/ GetTriggerElement
    \/ GetLaserElement
    \/ GetLaserGateElement
    \/ GetDelayElement
    \/ GetDelayGateElement
    \/ GetSyncElement
    \/ GetMwElement
    \/ GetMultipleMwElement
    \/ GetMwLaserElement

SpecHelpers == InitHelpers /\ [][NextHelpers]_vars

\* a generator and a fresh block to which the elements that the helper
\* methods build are appended
InitHelperBlock ==
    /\ InitContainers
    /\ generator \in {PredefinedGeneratorBase(logic) : logic \in BlockLogics}
    /\ helper_call = NoElementCall
    /\ InitRegistry
    /\ InitSharing

NextHelperBlock == AppendHelperElement

SpecHelperBlock == InitHelperBlock /\ [][NextHelperBlock]_vars

(***************************************************************************)
(* Properties of the PulseBlock                                            *)
(***************************************************************************)
RECURSIVE SumOf(_)
\* the sum of a list of numbers
SumOf(numbers) ==
    IF numbers = <<>> THEN 0 ELSE Head(numbers) + SumOf(Tail(numbers))

InitLengths(lst) == [k \in 1 .. Len(lst) |-> lst[k].init_length_s]

Increments(lst) == [k \in 1 .. Len(lst) |-> lst[k].increment_s]

\* the last call was insert_element, or append_element (which is insert_element
\* at position 0 or len(element_list))
IsInsertCall(call) == call.op \in {"insert_element", "append_element"}

\* the state of a new PulseBlock after insert_element(0, e1)
AfterFirstInsert(e1) == insert_element(PulseBlock("B1"), 0, e1).self

\* C1: in every reachable state of a PulseBlock, all stored elements have one and
\* the same channel_set (elements without any channel included).
C1_SameChannelSet ==
    \A i, j \in 1 .. Len(block.element_list) :
        block.element_list[i].channel_set = block.element_list[j].channel_set

\* C2: insert_element(0, e1) on a new PulseBlock followed by insert_element(1, e2),
\* where the channel sets of e1 and e2 differ, fails with the channel-set
\* ValueError and leaves exactly e1 in the block.
C2_SecondInsertRejected ==
    \A e1, e2 \in Elements :
        ( /\ e1.channel_set # e2.channel_set
          /\ block_before = AfterFirstInsert(e1)
          /\ block_call.op = "insert_element"
          /\ block_call.position = 1
          /\ block_call.element = e2 )
        => ( /\ block_call.ret = "ValueError"
             /\ block.element_list = <<e1>> )

\* C3: the block's init_length_s is the sum of its elements' init_length_s and
\* its increment_s is the sum of its elements' increment_s, in every reachable state.
C3_TotalsAreSums ==
    /\ block.init_length_s = SumOf(InitLengths(block.element_list))
    /\ block.increment_s = SumOf(Increments(block.element_list))

\* C3 witness: the block [e1(10, 0), e2(5, 1)] of the spec's example has lost its
\* first element through delete_element(0) and totals 5 and 1.
C3_Witness ==
    /\ block_call.op = "delete_element"
    /\ block_call.position = 0
    /\ block_call.ret = "0"
    /\ Len(block_before.element_list) = 2
    /\ block_before.init_length_s = 15
    /\ block_before.increment_s = 1
    /\ block_before.element_list[1].init_length_s = 10
    /\ block.init_length_s = 5
    /\ block.increment_s = 1

\* C5: a PulseBlock mutator call that fails (returns -1 or raises) leaves the
\* block's element list, totals and channel sets as they were before the call.
C5_FailedCallChangesNothing ==
    block_call.ret # "0" => block = block_before

\* C5 witness: a call on a block that holds elements has raised the channel-set
\* ValueError.
C5_Witness ==
    /\ block_call.ret = "ValueError"
    /\ block_call.op \in {"insert_element", "replace_element"}
    /\ block.element_list # <<>>

\* the position is an index of an existing entry of a list of length n
ValidIndex(position, n) == position >= 0 /\ position < n

\* the position is one that insert accepts for a list of length n
ValidInsertPosition(position, n) == position >= 0 /\ position <= n

\* C6 (PulseBlock part): replace_element or delete_element at a position that is
\* no index of an existing element, and insert_element at a position outside
\* 0..len, return -1 without raising and leave the block unchanged.
C6_BlockPart ==
    ( \/ /\ block_call.op \in {"replace_element", "delete_element"}
         /\ ~ValidIndex(block_call.position, Len(block_before.element_list))
      \/ /\ block_call.op = "insert_element"
         /\ ~ValidInsertPosition(block_call.position, Len(block_before.element_list)) )
    => (block_call.ret = "-1" /\ block = block_before)

HasInfiniteStep(ensemble_list) ==
    \E k \in 1 .. Len(ensemble_list) : ensemble_list[k].params.repetitions = 0 - 1

\* C4: is_finite is false exactly when some step of the sequence has
\* repetitions = -1, in every reachable state.
C4_IsFiniteIffNoInfiniteStep ==
    (~sequence.is_finite) <=> HasInfiniteStep(sequence.ensemble_list)

\* C4 witness: replace_ensemble has overwritten the only infinite step of a
\* two-step sequence with a finite one, and is_finite is true again.
C4_Witness ==
    /\ sequence_call.op = "replace_ensemble"
    /\ sequence_call.ret = "0"
    /\ Len(sequence.ensemble_list) = 2
    /\ ~sequence_before.is_finite
    /\ sequence.is_finite

\* C8: replace_ensemble(position, new_name) with a valid position and
\* seq_param = None, on steps added by insert_ensemble / append_ensemble, returns
\* 0, changes only the name of the step at that position and keeps its parameters,
\* the other steps and is_finite.
C8_ReplaceEnsembleKeepsParams ==
    ( /\ sequence_call.op = "replace_ensemble"
      /\ sequence_call.seq_param = None
      /\ IsStr(sequence_call.ensemble_name)
      /\ ValidIndex(sequence_call.position, Len(sequence_before.ensemble_list)) )
    => ( /\ sequence_call.ret = "0"
         /\ sequence.is_finite = sequence_before.is_finite
         /\ sequence.ensemble_list =
               [sequence_before.ensemble_list EXCEPT
                   ![sequence_call.position + 1].name = sequence_call.ensemble_name] )

\* C9: delete_ensemble at a valid position keeps is_finite when the removed step
\* has repetitions >= 0; when the removed step has repetitions = -1, is_finite is
\* afterwards true exactly when no remaining step has negative repetitions.
C9_DeleteEnsembleFiniteness ==
    ( /\ sequence_call.op = "delete_ensemble"
      /\ ValidIndex(sequence_call.position, Len(sequence_before.ensemble_list)) )
    => LET removed == sequence_before.ensemble_list[sequence_call.position + 1]
           remaining == sequence.ensemble_list
       IN  /\ sequence_call.ret = "0"
           /\ Len(remaining) = Len(sequence_before.ensemble_list) - 1
           /\ IF removed.params.repetitions >= 0
              THEN sequence.is_finite = sequence_before.is_finite
              ELSE sequence.is_finite =
                      (\A k \in 1 .. Len(remaining) : remaining[k].params.repetitions >= 0)

\* C9 witness: the only infinite step of a two-step sequence has been deleted and
\* is_finite has flipped from false to true (the spec's example).
C9_Witness ==
    /\ sequence_call.op = "delete_ensemble"
    /\ sequence_call.position = 1
    /\ sequence_call.ret = "0"
    /\ Len(sequence_before.ensemble_list) = 2
    /\ sequence_before.ensemble_list[2].params.repetitions = 0 - 1
    /\ ~sequence_before.is_finite
    /\ sequence.is_finite

\* C6 (PulseSequence part)
C6_SequencePart ==
    ( \/ /\ sequence_call.op \in {"replace_ensemble", "delete_ensemble"}
         /\ ~ValidIndex(sequence_call.position, Len(sequence_before.ensemble_list))
      \/ /\ sequence_call.op = "insert_ensemble"
         /\ ~ValidInsertPosition(sequence_call.position,
                                 Len(sequence_before.ensemble_list)) )
    => (sequence_call.ret = "-1" /\ sequence = sequence_before)

(***************************************************************************)
(* Properties of the PulseBlockEnsemble                                    *)
(***************************************************************************)
\* C7: replace_block(position, new_name) with a valid position and without a
\* repetition count, on steps added by insert_block / append_block, returns 0 and
\* leaves (new_name, the former repetitions) at that position and every other
\* step unchanged.
C7_ReplaceBlockKeepsReps ==
    ( /\ ensemble_call.op = "replace_block"
      /\ ensemble_call.reps = None
      /\ IsStr(ensemble_call.block_name)
      /\ ValidIndex(ensemble_call.position, Len(ensemble_before.block_list)) )
    => ( /\ ensemble_call.ret = "0"
         /\ ensemble.block_list =
               [ensemble_before.block_list EXCEPT
                   ![ensemble_call.position + 1].name = ensemble_call.block_name] )

\* C6 (PulseBlockEnsemble part)
C6_EnsemblePart ==
    ( \/ /\ ensemble_call.op \in {"replace_block", "delete_block"}
         /\ ~ValidIndex(ensemble_call.position, Len(ensemble_before.block_list))
      \/ /\ ensemble_call.op = "insert_block"
         /\ ~ValidInsertPosition(ensemble_call.position, Len(ensemble_before.block_list)) )
    => (ensemble_call.ret = "-1" /\ ensemble = ensemble_before)

\* C6: for Block, Ensemble and Sequence alike, a replace or delete call whose
\* position is no index of an existing entry, and an insert call whose position is
\* outside 0..length, returns -1 without raising and leaves the entity unchanged.
C6_BadPositionReturnsMinusOne ==
    C6_BlockPart /\ C6_EnsemblePart /\ C6_SequencePart

(***************************************************************************)
(* The PulseBlock that has lost its last element                           *)
(***************************************************************************)
\* the step from block_call to block_call' is a delete_element call that has
\* removed the last remaining element
DeletesLastElement ==
    /\ block_call'.op = "delete_element"
    /\ block_call'.ret = "0"
    /\ block.element_list # <<>>
    /\ block'.element_list = <<>>

\* the block has just lost its last element through delete_element
JustEmptiedByDelete ==
    /\ block_call.op = "delete_element"
    /\ block_call.ret = "0"
    /\ block_before.element_list # <<>>
    /\ block.element_list = <<>>

\* C11: when delete_element removes the last element, the totals are reset to 0
\* and channel_set, analog_channels and digital_channels keep their values; and a
\* following insert_element of an element whose channel set differs from the kept
\* one fails with the channel-set ValueError.
C11_EmptiedBlockKeepsChannelSet ==
    [][ /\ DeletesLastElement =>
            ( /\ block'.init_length_s = 0
              /\ block'.increment_s = 0
              /\ block'.channel_set = block.channel_set
              /\ block'.analog_channels = block.analog_channels
              /\ block'.digital_channels = block.digital_channels )
        /\ ( /\ JustEmptiedByDelete
             /\ block_call'.op = "insert_element"
             /\ IsElement(block_call'.element)
             /\ ValidInsertPosition(block_call'.position, 0)
             /\ block_call'.element.channel_set # block.channel_set )
           => ( /\ block_call'.ret = "ValueError"
                /\ block' = block )
      ]_vars

(***************************************************************************)
(* The stored element is a copy                                            *)
(***************************************************************************)
\* C12: after a successful insert_element, append_element or replace_element
\* with element e, a later change the caller makes to e (its duration, its
\* increment or its output mappings) changes neither the stored elements nor the
\* block's totals.
C12_StoredElementIsACopy ==
    block_call.op = "change_element" =>
        ( /\ block.element_list = block_before.element_list
          /\ block.init_length_s = block_before.init_length_s
          /\ block.increment_s = block_before.increment_s )

\* C12 witness: the caller has changed e after insert_element stored it, and the
\* block still holds e as it was passed, in a list of two elements.
C12_Witness ==
    /\ block_call.op = "change_element"
    /\ caller_element # block_call.element
    /\ Len(block.element_list) = 2
    /\ \E k \in 1 .. 2 : block.element_list[k] = block_call.element
    /\ block.init_length_s = SumOf(InitLengths(block.element_list))

(***************************************************************************)
(* Round trips through the dictionary representation                       *)
(***************************************************************************)
\* C13: for every PulseBlock b reachable by the mutators (one emptied again by
\* delete_element included), block_from_dict(b.get_dict_representation()) is
\* a block equal to b on name, element list, init_length_s, increment_s and
\* channel_set.
C13_BlockRoundTrip ==
    LET r == block_from_dict(block_get_dict_representation(block)) IN
        /\ r.ret = "None"
        /\ r.self.name = block.name
        /\ r.self.element_list = block.element_list
        /\ r.self.init_length_s = block.init_length_s
        /\ r.self.increment_s = block.increment_s
        /\ r.self.channel_set = block.channel_set

\* C14: for every PulseSequence s reachable by the mutators, whatever its
\* rotating_frame, sampling_information and measurement_information,
\* sequence_from_dict(s.get_dict_representation()) is a sequence equal to s on
\* name, rotating_frame, step list, sampling_information,
\* measurement_information and is_finite.
C14_SequenceRoundTrip ==
    \A attributes \in SequenceAttributes :
        LET s == WithAttributes(sequence, attributes)
            r == sequence_from_dict(sequence_get_dict_representation(s))
        IN  /\ r.ret = "None"
            /\ r.self.name = s.name
            /\ r.self.rotating_frame = s.rotating_frame
            /\ r.self.ensemble_list = s.ensemble_list
            /\ r.self.sampling_information = s.sampling_information
            /\ r.self.measurement_information = s.measurement_information
            /\ r.self.is_finite = s.is_finite

\* C14 witness: a sequence of two steps, the second one infinite, whose
\* reconstruction is not finite either.
C14_Witness ==
    /\ Len(sequence.ensemble_list) = 2
    /\ sequence.ensemble_list[1].params.repetitions >= 0
    /\ sequence.ensemble_list[2].params.repetitions < 0
    /\ ~sequence.is_finite
    /\ ~sequence_from_dict(sequence_get_dict_representation(sequence)).self.is_finite

(***************************************************************************)
(* The playback length of an ensemble                                      *)
(***************************************************************************)
\* the sum for k = 0 .. r of (b.init_length_s + k * b.increment_s)
RECURSIVE RepetitionsLength(_, _)
RepetitionsLength(b, r) ==
    IF r < 0 THEN 0
    ELSE RepetitionsLength(b, r - 1) + b.init_length_s + r * b.increment_s

\* the sum of RepetitionsLength over the steps of block_list, each step taking
\* the block of that name among blocks
RECURSIVE StepsLength(_, _)
StepsLength(blocks, block_list) ==
    IF block_list = <<>> THEN 0
    ELSE RepetitionsLength(CHOOSE b \in blocks : b.name = Head(block_list).name,
                           Head(block_list).reps)
         + StepsLength(blocks, Tail(block_list))

\* the blocks carry different names and every step refers to one of them
StepsReferToKnownBlocks(created_blocks, block_list) ==
    /\ \A i, j \in DOMAIN created_blocks :
          created_blocks[i].name = created_blocks[j].name => i = j
    /\ \A k \in DOMAIN block_list :
          \E i \in DOMAIN created_blocks : created_blocks[i].name = block_list[k].name

\* C15: with no gate channel configured, _get_ensemble_count_length returns,
\* for an ensemble whose steps refer to known blocks with repetitions r >= 0,
\* the sum over the steps of the sum for k = 0 .. r of
\* (block.init_length_s + k * block.increment_s); with a gate channel
\* configured it returns laser_length + laser_delay whatever the steps are.
C15_CountLength ==
    helper_call.op = "_get_ensemble_count_length" =>
        IF generator.sequencegeneratorlogic.generation_parameters.gate_channel = ""
        THEN StepsReferToKnownBlocks(helper_call.created_blocks,
                                     helper_call.ensemble.block_list)
             => /\ helper_call.exc = "None"
                /\ helper_call.ret =
                      StepsLength({helper_call.created_blocks[i] :
                                      i \in DOMAIN helper_call.created_blocks},
                                  helper_call.ensemble.block_list)
        ELSE /\ helper_call.exc = "None"
             /\ helper_call.ret =
                   generator.sequencegeneratorlogic.generation_parameters.laser_length
                   + generator.sequencegeneratorlogic.generation_parameters.laser_delay

\* C15 witness: no gate channel, one step ('B1', 2) of a block B1 with
\* init_length_s 10 and increment_s 2 gives 10 * 3 + 2 * (4 + 2) / 2 = 36.
C15_Witness ==
    /\ helper_call.op = "_get_ensemble_count_length"
    /\ generator.sequencegeneratorlogic.generation_parameters.gate_channel = ""
    /\ Len(helper_call.created_blocks) = 1
    /\ helper_call.created_blocks[1].name = "B1"
    /\ helper_call.created_blocks[1].init_length_s = 10
    /\ helper_call.created_blocks[1].increment_s = 2
    /\ helper_call.ensemble.block_list = <<BlockStep("B1", 2)>>
    /\ helper_call.exc = "None"
    /\ helper_call.ret = 36

(***************************************************************************)
(* The generate methods that PulseObjectGenerator collects                 *)
(***************************************************************************)
\* instance i of the generator instances exposes generate_<tail>
Exposes(instances, i, tail) ==
    \E k \in DOMAIN instances[i].methods :
        /\ instances[i].methods[k].name.head = "generate_"
        /\ instances[i].methods[k].name.tail = tail

\* C16: when several discovered generator instances expose a generate_<name>
\* method with the same suffix, the method mapping holds one entry for <name>,
\* the method of the instance that is last in discovery order; every suffix
\* that some instance exposes is in the mapping.
C16_LastInstanceWins ==
    registry.constructed =>
        LET instances == registry.generator_instances
            exposed == {tail \in UNION {{instances[i].methods[k].name.tail :
                                             k \in DOMAIN instances[i].methods} :
                                                i \in DOMAIN instances} :
                           \E i \in DOMAIN instances : Exposes(instances, i, tail)}
        IN  /\ DOMAIN registry.generate_methods = exposed
            /\ \A tail \in exposed :
                  LET ref == registry.generate_methods[tail] IN
                    /\ Exposes(instances, ref.instance, tail)
                    /\ \A i \in DOMAIN instances :
                          Exposes(instances, i, tail) => i <= ref.instance
                    /\ \E k \in DOMAIN instances[ref.instance].methods :
                          instances[ref.instance].methods[k] = ref.method
                    /\ ref.method.name = MethodName("generate_", tail)

\* C16 witness: the instances of two different classes both expose
\* generate_foo, and the entry 'foo' is the method of the second one.
C16_Witness ==
    /\ registry.constructed
    /\ Len(registry.generator_instances) = 2
    /\ registry.generator_instances[1].name # registry.generator_instances[2].name
    /\ Exposes(registry.generator_instances, 1, "foo")
    /\ Exposes(registry.generator_instances, 2, "foo")
    /\ registry.generate_methods["foo"].instance = 2

\* C17: a class is accepted as a generator class if and only if its direct
\* bases are exactly the one class PredefinedGeneratorBase; a class with another
\* base beside it, or one that inherits from it through another class, is not
\* instantiated and contributes no entry to the method mapping.
C17_OnlySingleBaseClasses ==
    registry.constructed =>
        /\ \A m \in DOMAIN registry.imported :
              \A k \in DOMAIN registry.imported[m].members :
                 LET obj == registry.imported[m].members[k] IN
                    (\E i \in DOMAIN registry.generator_instances :
                        registry.generator_instances[i] = obj)
                    <=> (obj.isclass /\ obj.bases = <<"PredefinedGeneratorBase">>)
        /\ \A tail \in DOMAIN registry.generate_methods :
              registry.generator_instances[registry.generate_methods[tail].instance].bases
                  = <<"PredefinedGeneratorBase">>

\* C17 witness: a module with class B, class C(PredefinedGeneratorBase, Mixin)
\* and class D(B) has been scanned; B alone is instantiated and 'c' and 'd'
\* are no entries.
C17_Witness ==
    /\ registry.constructed
    /\ \E m \in DOMAIN registry.imported : registry.imported[m] = ModuleB
    /\ \E i \in DOMAIN registry.generator_instances :
          registry.generator_instances[i].name = "B"
    /\ "b" \in DOMAIN registry.generate_methods
    /\ "c" \notin DOMAIN registry.generate_methods
    /\ "d" \notin DOMAIN registry.generate_methods

\* C18: after the construction the parameter mapping has the keys of the
\* method mapping; the entry of a method lists its declared parameters in
\* declaration order, each with its declared default, or None if it has none;
\* and no generate method has been invoked.
C18_ParameterMapping ==
    (registry_call.op = "__init__" /\ registry.constructed) =>
        /\ DOMAIN registry.generate_method_parameters = DOMAIN registry.generate_methods
        /\ \A method_name \in DOMAIN registry.generate_methods :
              LET declared == registry.generate_methods[method_name].method.parameters
                  listed == registry.generate_method_parameters[method_name]
              IN  /\ Len(listed) = Len(declared)
                  /\ \A k \in DOMAIN declared :
                        /\ listed[k].name = declared[k].name
                        /\ declared[k].default = None => listed[k].value = "None"
                        /\ declared[k].default # None =>
                              {listed[k].value} = declared[k].default
        /\ registry.invoked = {}

\* C18 witness: generate_foo(self, x, y=2) is registered with x: None, y: 2.
C18_Witness ==
    /\ registry_call.op = "__init__"
    /\ registry.constructed
    /\ "foo" \in DOMAIN registry.generate_methods
    /\ registry.generate_method_parameters["foo"] =
          <<[name |-> "x", value |-> "None"], [name |-> "y", value |-> "2"]>>

\* C19: predefined_method_parameters returns a defensive copy: no change that
\* the caller makes to the returned mapping (adding or removing an entry,
\* changing a default inside the mapping of one method) shows in the result of
\* a later read of predefined_method_parameters.
C19_DefensiveCopy ==
    registry_call.op = "caller_changes" =>
        predefined_method_parameters(registry).value
            = predefined_method_parameters(registry_before).value

\* the files of the paths that exist, and those among them which import_module
\* loads from the file: the name is not in sys.modules before the scan and no
\* earlier file carries it
FilesAt(k) == {plugin_dirs[k].files[i] : i \in DOMAIN plugin_dirs[k].files}

ExistingFiles == UNION {FilesAt(k) : k \in {j \in DOMAIN plugin_dirs : plugin_dirs[j].exists}}

LoadedFromFile(k, i) ==
    /\ plugin_dirs[k].files[i].name \notin DOMAIN PreloadedModules
    /\ \A j \in 1 .. (k - 1) :
          \A f \in FilesAt(j) : f.name # plugin_dirs[k].files[i].name

\* C20: in the construction a path that does not exist is logged as one error
\* and skipped; the construction goes on with the other paths and completes,
\* and the method mapping contains the generate methods of every generator
\* class in the files of the paths that exist.  A module whose import fails
\* aborts the construction with the error.
C20_MissingPathIsSkipped ==
    registry_call.op = "__init__" =>
        LET missing == {k \in DOMAIN plugin_dirs : ~plugin_dirs[k].exists} IN
            /\ (missing # {} /\ \A f \in ExistingFiles : f.content.import_ok) =>
                  /\ registry.constructed
                  /\ registry.log_errors = Cardinality(missing)
                  /\ \A f \in ExistingFiles :
                        \A k \in DOMAIN f.content.members :
                           LET cls == f.content.members[k] IN
                              (cls.isclass /\ cls.bases = <<"PredefinedGeneratorBase">>) =>
                                 \A n \in DOMAIN cls.methods :
                                    cls.methods[n].name.head = "generate_" =>
                                       cls.methods[n].name.tail
                                           \in DOMAIN registry.generate_methods
            /\ (\E k \in DOMAIN plugin_dirs : \E i \in DOMAIN plugin_dirs[k].files :
                    /\ plugin_dirs[k].exists
                    /\ LoadedFromFile(k, i)
                    /\ ~plugin_dirs[k].files[i].content.import_ok)
               => (~registry.constructed /\ registry.raised = "ImportError")

(***************************************************************************)
(* Failed PulseSequence calls, and the caller's step parameter dict        *)
(***************************************************************************)
\* C21: an insert_ensemble, append_ensemble, replace_ensemble or
\* delete_ensemble call that returns -1 or raises (a call whose step parameter
\* dict has no 'repetitions' included) leaves the step list and is_finite as
\* they were before the call.
C21_FailedSequenceCallChangesNothing ==
    ( /\ sequence_call.op \in {"insert_ensemble", "append_ensemble",
                               "replace_ensemble", "delete_ensemble"}
      /\ sequence_call.ret # "0" )
    => ( /\ sequence.ensemble_list = sequence_before.ensemble_list
         /\ sequence.is_finite = sequence_before.is_finite )

\* C27: insert_ensemble, append_ensemble and replace_ensemble store a copy of
\* the caller's step parameter dict: when the caller sets 'repetitions' of its
\* dict to -1 after the call, the stored steps and is_finite stay as they are.
C27_StoredParamsAreACopy ==
    sequence_call.op = "change_seq_param" =>
        /\ sequence.ensemble_list = sequence_before.ensemble_list
        /\ sequence.is_finite = sequence_before.is_finite

\* C27 witness: a finite sequence holds the step that insert_ensemble stored
\* with repetitions 0, and the caller's dict now says -1.
C27_Witness ==
    /\ sequence_call.op = "change_seq_param"
    /\ sequence_call.seq_param # None
    /\ TheValue(caller_seq_param).repetitions = 0 - 1
    /\ \E k \in DOMAIN sequence.ensemble_list :
          /\ sequence.ensemble_list[k].params = TheValue(sequence_call.seq_param)
          /\ sequence.ensemble_list[k].params.repetitions = 0
    /\ sequence.is_finite


\* the classes of pulse_objects.py, which a scanned module does not define
\* and can hold only because it has imported them
ClassesOfPulseObjects == {"PredefinedGeneratorBase", "PulseObjectGenerator"}

\* C25: the construction collects and instantiates only classes that are
\* defined in the scanned modules: a class that a module has merely imported,
\* such as PulseObjectGenerator, is no generator instance, and the
\* construction terminates (it does not end in RecursionError).
C25_ImportedClassIsNotCollected ==
    registry_call.op = "__init__" =>
        /\ registry.raised # "RecursionError"
        /\ \A i \in DOMAIN registry.generator_instances :
              registry.generator_instances[i].name \notin ClassesOfPulseObjects


\* C26: every step of the PulseBlockEnsemble has a string block name and
\* repetitions >= 0; an insert_block or replace_block call with negative
\* repetitions returns -1 and leaves the step list as it was.
C26_StepsHaveValidRepetitions ==
    /\ \A k \in DOMAIN ensemble.block_list :
          /\ IsStr(ensemble.block_list[k].name)
          /\ ensemble.block_list[k].reps >= 0
    /\ ( /\ ensemble_call.op \in {"insert_block", "replace_block"}
         /\ ensemble_call.reps # None
         /\ TheValue(ensemble_call.reps) < 0 )
       => ( /\ ensemble_call.ret = "-1"
            /\ ensemble.block_list = ensemble_before.block_list )

\* C26 witness: replace_block with a string name, a valid position and
\* repetitions -1 has been refused on an ensemble of two steps.
C26_Witness ==
    /\ ensemble_call.op = "replace_block"
    /\ ensemble_call.reps = Some(0 - 1)
    /\ IsStr(ensemble_call.block_name)
    /\ ensemble_call.position = 1
    /\ Len(ensemble_before.block_list) = 2
    /\ ensemble_call.ret = "-1"
    /\ ensemble.block_list = ensemble_before.block_list


(***************************************************************************)
(* Independence of a reconstructed PulseSequence                           *)
(***************************************************************************)
\* C28: the sequence t = sequence_from_dict(s.get_dict_representation()) is
\* independent of s: an insert_ensemble, replace_ensemble or delete_ensemble
\* call on t changes neither the step list nor the metadata of s, and
\* s.is_finite still says that no step of s has negative repetitions.
C28_ReconstructedIsIndependent ==
    sequence_call.op \in {"copy.insert_ensemble", "copy.replace_ensemble",
                          "copy.delete_ensemble"}
    => ( /\ sequence.ensemble_list = sequence_before.ensemble_list
         /\ sequence.sampling_information = sequence_before.sampling_information
         /\ sequence.measurement_information = sequence_before.measurement_information
         /\ sequence.is_finite <=> ~HasInfiniteStep(sequence.ensemble_list) )


(***************************************************************************)
(* The dictionary after element_from_dict / block_from_dict                *)
(***************************************************************************)
\* C29: element_from_dict and block_from_dict leave the dictionary they are
\* given as it was, and every reconstruction from the same dictionary succeeds
\* and yields the same entity as the first one.
C29_FromDictLeavesTheDict ==
    from_dict_results # <<>> =>
        /\ caller_dict.value = caller_dict.taken
        /\ \A k \in DOMAIN from_dict_results :
              /\ from_dict_results[k].ret = "None"
              /\ from_dict_results[k].value = from_dict_results[1].value


(***************************************************************************)
(* Properties of the elements that the helper methods build                *)
(***************************************************************************)
HelperOps ==
    {"_get_idle_element", "_get_trigger_element", "_get_laser_element",
     "_get_laser_gate_element", "_get_delay_element", "_get_delay_gate_element",
     "_get_sync_element", "_get_mw_element", "_get_multiple_mw_element",
     "_get_mw_laser_element"}

\* a helper method has returned an element
HelperReturned == helper_call.op \in HelperOps /\ helper_call.exc = "None"

\* C22: every element that a helper method returns, whatever the active
\* channels and the laser, gate, sync and microwave channels are, has
\* channel_set = keys(pulse_function) \cup keys(digital_high).
C22_HelperElementChannelSet ==
    HelperReturned =>
        helper_call.ret.channel_set =
            (DOMAIN helper_call.ret.pulse_function)
            \cup (DOMAIN helper_call.ret.digital_high)

\* the channels that a channels argument names
NamedChannels(channels) ==
    IF channels.type = "str"
    THEN {channels.str}
    ELSE {channels.list[k] : k \in DOMAIN channels.list}

\* C23: _get_trigger_element(length, increment, channels) returns an element
\* of that length and increment in which every named digital channel is high,
\* every named analog channel has DC at the analog trigger voltage, every other
\* active analog channel is idle and every other active digital channel is low;
\* a str is taken as the list of that one name.
C23_TriggerElement ==
    ( /\ helper_call.op = "_get_trigger_element"
      /\ helper_call.args.channels.type \in {"str", "list"} )
    => LET element == helper_call.ret
           named == NamedChannels(helper_call.args.channels)
           named_digital == named \cap {"d_ch1", "d_ch2"}
           named_analog == named \ named_digital
       IN  /\ helper_call.exc = "None"
           /\ element.init_length_s = helper_call.args.length
           /\ element.increment_s = helper_call.args.increment
           /\ DOMAIN element.digital_high = digital_channels(generator) \cup named_digital
           /\ DOMAIN element.pulse_function = analog_channels(generator) \cup named_analog
           /\ \A chnl \in DOMAIN element.digital_high :
                 element.digital_high[chnl] = (chnl \in named)
           /\ \A chnl \in DOMAIN element.pulse_function :
                 element.pulse_function[chnl] =
                     IF chnl \in named
                     THEN [name |-> "DC",
                           params |-> [voltage |->
                               generator.sequencegeneratorlogic.generation_parameters
                                   .analog_trigger_voltage]]
                     ELSE [name |-> "Idle", params |-> <<>>]

\* C23 witness: with a_ch1, a_ch2, d_ch1 and d_ch2 active, the call with
\* ['d_ch1', 'a_ch2'] has returned d_ch1 high, d_ch2 low, DC on a_ch2 and idle
\* on a_ch1.
C23_Witness ==
    /\ helper_call.op = "_get_trigger_element"
    /\ helper_call.exc = "None"
    /\ helper_call.args.channels = ListArg(<<"d_ch1", "a_ch2">>)
    /\ channel_set(generator) = {"a_ch1", "a_ch2", "d_ch1", "d_ch2"}
    /\ helper_call.ret.digital_high["d_ch1"]
    /\ ~helper_call.ret.digital_high["d_ch2"]
    /\ helper_call.ret.pulse_function["a_ch2"].name = "DC"
    /\ helper_call.ret.pulse_function["a_ch1"].name = "Idle"

\* the first n entries of the list that a tone argument stands for
FirstTones(arg, n) ==
    LET lst == IF arg.type = "int" THEN <<arg.int>> ELSE arg.list IN
        [k \in 1 .. n |-> lst[k]]

\* the number of entries of the list that a tone argument stands for
ToneCount(arg) == IF arg.type = "int" THEN 1 ELSE Len(arg.list)

\* C24: with an analog microwave channel, _get_multiple_mw_element puts on
\* that channel a sampling function of n = min(len(amps), len(freqs),
\* len(phases)) tones: Sin for n = 1, DoubleSin for n = 2, TripleSin for
\* n >= 3, with the first n (3 at most) entries of the three lists; with a
\* digital microwave channel it returns the trigger element of that channel,
\* whatever the lists are.
C24_MultipleMwElement ==
    ( /\ helper_call.op = "_get_multiple_mw_element"
      /\ generator.sequencegeneratorlogic.generation_parameters.microwave_channel # "" )
    => LET channel ==
               generator.sequencegeneratorlogic.generation_parameters.microwave_channel
           counts == {ToneCount(helper_call.args.amps),
                      ToneCount(helper_call.args.freqs),
                      ToneCount(helper_call.args.phases)}
           n == CHOOSE c \in counts : \A d \in counts : c <= d
           used == IF n >= 3 THEN 3 ELSE n
           a == FirstTones(helper_call.args.amps, used)
           f == FirstTones(helper_call.args.freqs, used)
           p == FirstTones(helper_call.args.phases, used)
       IN  IF channel \in {"d_ch1", "d_ch2"}
           THEN /\ helper_call.exc = "None"
                /\ helper_call.ret =
                      get_trigger_element(generator, helper_call.args.length,
                                          helper_call.args.increment,
                                          StrArg(channel)).ret
                /\ helper_call.ret.digital_high[channel]
           ELSE n >= 1 =>
                /\ helper_call.exc = "None"
                /\ helper_call.ret.pulse_function[channel] =
                      IF n = 1
                      THEN [name |-> "Sin",
                            params |-> [amplitude |-> a[1], frequency |-> f[1],
                                        phase |-> p[1]]]
                      ELSE IF n = 2
                      THEN [name |-> "DoubleSin",
                            params |-> [amplitude_1 |-> a[1], amplitude_2 |-> a[2],
                                        frequency_1 |-> f[1], frequency_2 |-> f[2],
                                        phase_1 |-> p[1], phase_2 |-> p[2]]]
                      ELSE [name |-> "TripleSin",
                            params |-> [amplitude_1 |-> a[1], amplitude_2 |-> a[2],
                                        amplitude_3 |-> a[3],
                                        frequency_1 |-> f[1], frequency_2 |-> f[2],
                                        frequency_3 |-> f[3],
                                        phase_1 |-> p[1], phase_2 |-> p[2],
                                        phase_3 |-> p[3]]]

\* C24 witness: with the analog microwave channel a_ch1, four amplitudes,
\* three frequencies and four phases have given a TripleSin of the first
\* three of each.
C24_Witness ==
    /\ helper_call.op = "_get_multiple_mw_element"
    /\ helper_call.exc = "None"
    /\ generator.sequencegeneratorlogic.generation_parameters.microwave_channel = "a_ch1"
    /\ ToneCount(helper_call.args.amps) = 4
    /\ ToneCount(helper_call.args.freqs) = 3
    /\ ToneCount(helper_call.args.phases) = 4
    /\ helper_call.ret.pulse_function["a_ch1"].name = "TripleSin"
    /\ helper_call.ret.pulse_function["a_ch1"].params.amplitude_3 = 3
    /\ helper_call.ret.pulse_function["a_ch1"].params.phase_3 = 23

\* every laser, gate, sync and microwave channel that is assigned is active
AssignedChannelsAreActive ==
    LET p == generator.sequencegeneratorlogic.generation_parameters IN
        ({p.laser_channel, p.gate_channel, p.sync_channel, p.microwave_channel} \ {""})
            \subseteq channel_set(generator)

\* C30 as stated: when every assigned laser, gate, sync and microwave channel
\* is active, every element that a helper method builds has the channel_set
\* of the generator, and appending it to the block that was fresh never raises
\* the channel set error.
C30_HelperElementsFitOneBlock ==
    (AssignedChannelsAreActive /\ HelperReturned) =>
        /\ helper_call.ret.channel_set = channel_set(generator)
        /\ block_call.ret # "ValueError"

\* the channels that the call names are active (every call but
\* _get_trigger_element names none)
NamesActiveChannels(call) ==
    call.op = "_get_trigger_element" =>
        NamedChannels(call.args.channels) \subseteq channel_set(generator)

\* C30 amended: when every assigned laser, gate, sync and microwave channel is
\* active, every element that a helper method builds, _get_trigger_element
\* being called with active channels only, has the channel_set of the
\* generator; appending it to a block that was fresh and holds such elements
\* only returns 0.
C30_HelperElementsOfActiveChannelsFitOneBlock ==
    (AssignedChannelsAreActive /\ HelperReturned /\ NamesActiveChannels(helper_call)) =>
        /\ helper_call.ret.channel_set = channel_set(generator)
        /\ (\A k \in DOMAIN block_before.element_list :
               block_before.element_list[k].channel_set = channel_set(generator))
           => /\ block_call.ret = "0"
              /\ block.element_list = Append(block_before.element_list, helper_call.ret)

\* C30 witness: the block holds the elements of two different helper methods,
\* the second one just appended.
C30_Witness ==
    /\ AssignedChannelsAreActive
    /\ HelperReturned
    /\ helper_call.op = "_get_laser_gate_element"
    /\ gate_channel(generator) # None
    /\ block_call.ret = "0"
    /\ Len(block.element_list) = 2
    /\ block.element_list[1] # block.element_list[2]
    /\ block.element_list[2] = helper_call.ret

=============================================================================
